---- MODULE Spec2Model ----
(***************************************************************************)
(* Model of the triple-agent audit core of msyafach/audit_agent:           *)
(*   src/core/tool_orchestrator.py  value extraction, plan builder,        *)
(*                                  plan executor, usage validator         *)
(*   src/calculation_tools.py       the arithmetic engine and its one      *)
(*                                  module-level calculator and log        *)
(*   src/core/base_agent.py         process_statement, the retry           *)
(*                                  controller, the key-figure extractor   *)
(*   src/agents/*_agent.py          the two consensus validators           *)
(*                                                                         *)
(* Amounts are integers counted in hundredths of a currency unit (the      *)
(* finest resolution the code compares against, Decimal('0.01')).  The     *)
(* engine computes in Decimal with 28 digits, so on amounts of at most two *)
(* decimals and fewer than 15 significant digits its results, and the      *)
(* float it reports at the boundary, are exact; the model covers that      *)
(* range.  Python dicts are functions, lists are sequences, and a value    *)
(* stored in a JSON-like tree is tagged with its Python type.              *)
(***************************************************************************)
EXTENDS Integers, Sequences, FiniteSets, TLC

-----------------------------------------------------------------------------
(* Bounds of the model *)

\* longest statement text, in numeric tokens
MaxTokens == 11
\* largest max_retries a caller passes
MaxRetries == 2
\* largest number of agents handed to the controller
MaxAgents == 3
\* number of agent runs started side by side
MaxThreads == 2
\* largest number of statements handed to process_financial_statements
MaxStatements == 3
\* audit-log length up to which the calculation tools go on being called directly
MaxLog == 2

-----------------------------------------------------------------------------
(* Program constants *)

\* hundredths per currency unit
CentsPerUnit == 100
\* _extract_financial_values keeps clean_num > 1000
MaterialityFloor == 1000
\* Gemini: tolerance = max(abs(base_value * 0.0001), 1.0)
StrictRelDen == 10000
StrictFloor == 1
\* Ollama: tolerance = max(abs(base_value * 0.001), 5.0)
LooseRelDen == 1000
LooseFloor == 5
\* _create_agents builds agent_1, agent_2, agent_3
TripleAgents == 3

-----------------------------------------------------------------------------
(* The calls of create_standardized_calculation_plan during one run of the *)
(* controller, in order: the attempt, the caller (0: the controller, i:    *)
(* the i-th agent) and the plan the call returned.                         *)

VARIABLE plan_calls

-----------------------------------------------------------------------------
(* Python values *)

Num(n) == [t |-> "num", v |-> n]
Str(s) == [t |-> "str", v |-> s]
Bool(b) == [t |-> "bool", v |-> b]
List(q) == [t |-> "list", v |-> q]
Dict(f) == [t |-> "dict", v |-> f]
EmptyDict == Dict(<<>>)

IsDict(x) == x.t = "dict"
IsNum(x) == x.t = "num"
\* key in d, for a dict d
Has(d, k) == k \in DOMAIN d.v
\* d[k]
Get(d, k) == d.v[k]
\* d.get(k, default)
GetOr(d, k, default) == IF Has(d, k) THEN Get(d, k) ELSE default
\* d[k] = x on a copy of d
Put(d, k, x) == Dict([j \in (DOMAIN d.v) \cup {k} |-> IF j = k THEN x ELSE d.v[j]])

\* a local variable: `x = value`, then Body over x, value computed once
Bind(value, Body(_)) == CHOOSE r \in {Body(x) : x \in {value}} : TRUE

Abs(n) == IF n < 0 THEN -n ELSE n
Max(a, b) == IF a >= b THEN a ELSE b
Min(a, b) == IF a <= b THEN a ELSE b

\* Python s[a:b] for 0 <= a, on a sequence (0-based, end clipped)
Slice(s, a, b) == SubSeq(s, a + 1, Min(b, Len(s)))
\* Python s[a:]
SliceFrom(s, a) == SubSeq(s, a + 1, Len(s))

RECURSIVE SumSeq(_)
SumSeq(s) == IF s = <<>> THEN 0 ELSE s[1] + SumSeq(Tail(s))

-----------------------------------------------------------------------------
(* Statement text.  re.findall(r'[\d,.]+', text) yields the maximal runs   *)
(* of digits, commas and dots in text order; a text is modelled by that    *)
(* sequence of runs, each run a tuple of its characters.                   *)

Digits == {"0", "1", "2", "3", "4", "5", "6", "7", "8", "9"}

DigitVal(c) ==
    CASE c = "0" -> 0 [] c = "1" -> 1 [] c = "2" -> 2 [] c = "3" -> 3
      [] c = "4" -> 4 [] c = "5" -> 5 [] c = "6" -> 6 [] c = "7" -> 7
      [] c = "8" -> 8 [] c = "9" -> 9

\* num_str.replace(',', '')
RECURSIVE RemoveCommas(_)
RemoveCommas(s) ==
    IF s = <<>> THEN <<>>
    ELSE IF s[1] = "," THEN RemoveCommas(Tail(s))
    ELSE <<s[1]>> \o RemoveCommas(Tail(s))

DotCount(s) == Cardinality({i \in 1..Len(s) : s[i] = "."})
DigitCount(s) == Cardinality({i \in 1..Len(s) : s[i] \in Digits})

\* float(s) raises ValueError unless s is digits with at most one dot and
\* at least one digit (s holds only digits and dots here)
FloatParses(s) == DotCount(s) <= 1 /\ DigitCount(s) >= 1

RECURSIVE DigitsValue(_)
DigitsValue(s) ==
    IF s = <<>> THEN 0 ELSE DigitsValue(SubSeq(s, 1, Len(s) - 1)) * 10 + DigitVal(s[Len(s)])

DotAt(s) == IF DotCount(s) = 0 THEN Len(s) + 1 ELSE CHOOSE i \in 1..Len(s) : s[i] = "."

\* float(s) in hundredths, for s with at most two decimals
FloatValue(s) ==
    LET d == DotAt(s)
        whole == DigitsValue(SubSeq(s, 1, d - 1))
        frac == SubSeq(s, d + 1, Len(s))
        cents == IF Len(frac) = 0 THEN 0
                 ELSE IF Len(frac) = 1 THEN DigitVal(frac[1]) * 10
                 ELSE DigitVal(frac[1]) * 10 + DigitVal(frac[2])
    IN  whole * CentsPerUnit + cents

\* the runs a statement text is made of
TokenList ==
    << <<"5", "0", "0", "0">>,
       <<"2", ",", "0", "0", "0">>,
       <<"3", "0", "0", "0">>,
       <<"2", "0", "2", "4">>,
       <<"1", "0", "0", "0", ".", "5", "0">>,
       <<"5", "0", "0">>,
       <<"1", ".", "5", ".", "0">>,
       <<"1", "0", "0", "0">> >>

\* the text of n runs that cycles through TokenList from its k-th run
Text(n, k) == [i \in 1..n |-> TokenList[((i + k - 1) % Len(TokenList)) + 1]]

Statements == {Text(n, k) : n \in 0..MaxTokens, k \in 0..(Len(TokenList) - 1)}

StatementTypes == {"neraca", "laporan_posisi_keuangan", "laba_rugi", "arus_kas", "catatan"}

\* statement_type == "neraca" or "posisi_keuangan" in statement_type
IsBalanceSheet(statement_type) == statement_type \in {"neraca", "laporan_posisi_keuangan"}

-----------------------------------------------------------------------------
(* Value Extractor: ToolOrchestrator._extract_financial_values *)

\* a filter that keeps the floor itself
RECURSIVE CleanNumbersFromFloor(_)
CleanNumbersFromFloor(raw_numbers) ==
    IF raw_numbers = <<>> THEN <<>>
    ELSE LET num_str == RemoveCommas(raw_numbers[1])
             rest == CleanNumbersFromFloor(Tail(raw_numbers))
         IN  IF FloatParses(num_str) /\ FloatValue(num_str) >= MaterialityFloor * CentsPerUnit
             THEN <<FloatValue(num_str)>> \o rest
             ELSE rest

RECURSIVE CleanNumbers(_)
CleanNumbers(raw_numbers) ==
    IF raw_numbers = <<>> THEN <<>>
    ELSE LET num_str == RemoveCommas(raw_numbers[1])
             rest == CleanNumbers(Tail(raw_numbers))
         IN  IF FloatParses(num_str) /\ FloatValue(num_str) > MaterialityFloor * CentsPerUnit
             THEN <<FloatValue(num_str)>> \o rest
             ELSE rest

extract_financial_values(financial_data) ==
    Bind(CleanNumbers(financial_data), LAMBDA clean_numbers :
        LET n == Len(clean_numbers)
        IN  [current_assets |-> IF n > 3 THEN Slice(clean_numbers, 0, n \div 3)
                                ELSE clean_numbers,
             fixed_assets |-> IF n > 6 THEN Slice(clean_numbers, n \div 3, (2 * n) \div 3)
                              ELSE <<>>,
             liabilities |-> IF n > 6 THEN SliceFrom(clean_numbers, (2 * n) \div 3)
                             ELSE <<>>,
             all_values |-> clean_numbers])

-----------------------------------------------------------------------------
(* Plan Builder: ToolOrchestrator.create_standardized_calculation_plan.    *)
(* expected_result_key is kept as the list key_path.split('.') yields.     *)

ToolExecution(tool_name, parameters, description, expected_result_key) ==
    [tool_name |-> tool_name, parameters |-> parameters,
     description |-> description, expected_result_key |-> expected_result_key]

\* the balance check put before the footing validation
BalanceSheetToolsReordered(numbers) ==
    LET all == numbers.all_values
        tool1 == IF numbers.current_assets # <<>>
                 THEN <<ToolExecution("sum_financial_values",
                            [values |-> Slice(numbers.current_assets, 0, 5),
                             description |-> "Calculate total current assets"],
                            "Sum of current assets",
                            <<"aset_lancar", "nilai_perhitungan">>)>>
                 ELSE <<>>
        tool2 == IF numbers.fixed_assets # <<>>
                 THEN <<ToolExecution("sum_financial_values",
                            [values |-> Slice(numbers.fixed_assets, 0, 5),
                             description |-> "Calculate total fixed assets"],
                            "Sum of fixed assets",
                            <<"aset_tetap", "nilai_perhitungan">>)>>
                 ELSE <<>>
        tool3 == IF Len(all) >= 2
                 THEN <<ToolExecution("sum_financial_values",
                            [values |-> Slice(all, 0, 10),
                             description |-> "Calculate total assets"],
                            "Calculate total assets",
                            <<"total_aset", "nilai_perhitungan">>)>>
                 ELSE <<>>
        tool4 == IF Len(all) >= 3
                 THEN <<ToolExecution("validate_footing_calculation",
                            [reported_total |-> all[1],
                             components |-> Slice(all, 1, 6),
                             description |-> "Validate asset footing"],
                            "Validate asset footing",
                            <<"footing_validation", "status">>)>>
                 ELSE <<>>
        tool5 == IF Len(all) >= 6
                 THEN LET mid == Len(all) \div 2
                      IN  <<ToolExecution("verify_balance_sheet_equation",
                                [assets |-> all[1],
                                 liabilities |-> all[mid + 1],
                                 equity |-> all[Len(all)]],
                                "Verify balance sheet equation",
                                <<"balancing", "status">>)>>
                 ELSE <<>>
    IN  tool1 \o tool2 \o tool3 \o tool5 \o tool4

create_balance_sheet_tools(numbers) ==
    LET all == numbers.all_values
        tool1 == IF numbers.current_assets # <<>>
                 THEN <<ToolExecution("sum_financial_values",
                            [values |-> Slice(numbers.current_assets, 0, 5),
                             description |-> "Calculate total current assets"],
                            "Sum of current assets",
                            <<"aset_lancar", "nilai_perhitungan">>)>>
                 ELSE <<>>
        tool2 == IF numbers.fixed_assets # <<>>
                 THEN <<ToolExecution("sum_financial_values",
                            [values |-> Slice(numbers.fixed_assets, 0, 5),
                             description |-> "Calculate total fixed assets"],
                            "Sum of fixed assets",
                            <<"aset_tetap", "nilai_perhitungan">>)>>
                 ELSE <<>>
        tool3 == IF Len(all) >= 2
                 THEN <<ToolExecution("sum_financial_values",
                            [values |-> Slice(all, 0, 10),
                             description |-> "Calculate total assets"],
                            "Calculate total assets",
                            <<"total_aset", "nilai_perhitungan">>)>>
                 ELSE <<>>
        tool4 == IF Len(all) >= 3
                 THEN <<ToolExecution("validate_footing_calculation",
                            [reported_total |-> all[1],
                             components |-> Slice(all, 1, 6),
                             description |-> "Validate asset footing"],
                            "Validate asset footing",
                            <<"footing_validation", "status">>)>>
                 ELSE <<>>
        tool5 == IF Len(all) >= 6
                 THEN LET mid == Len(all) \div 2
                      IN  <<ToolExecution("verify_balance_sheet_equation",
                                [assets |-> all[1],
                                 liabilities |-> all[mid + 1],
                                 equity |-> all[Len(all)]],
                                "Verify balance sheet equation",
                                <<"balancing", "status">>)>>
                 ELSE <<>>
    IN  tool1 \o tool2 \o tool3 \o tool4 \o tool5

\* the net income stored at the path of the revenue
IncomeStatementToolsSharedPath(numbers) ==
    LET all == numbers.all_values
        revenue == IF Len(all) >= 2
                   THEN <<ToolExecution("sum_financial_values",
                              [values |-> Slice(all, 0, 3),
                               description |-> "Calculate total revenue"],
                              "Total revenue calculation",
                              <<"total_pendapatan", "nilai_perhitungan">>)>>
                   ELSE <<>>
        expense == IF Len(all) >= 4
                   THEN <<ToolExecution("sum_financial_values",
                              [values |-> Slice(all, 2, 7),
                               description |-> "Calculate total expenses"],
                              "Total expense calculation",
                              <<"total_beban", "nilai_perhitungan">>)>>
                   ELSE <<>>
        net == IF Len(all) >= 2
               THEN <<ToolExecution("subtract_financial_values",
                          [minuend |-> all[1],
                           subtrahend |-> all[2],
                           description |-> "Calculate net income"],
                          "Net income calculation",
                          <<"total_pendapatan", "nilai_perhitungan">>)>>
               ELSE <<>>
    IN  revenue \o expense \o net

create_income_statement_tools(numbers) ==
    LET all == numbers.all_values
        revenue == IF Len(all) >= 2
                   THEN <<ToolExecution("sum_financial_values",
                              [values |-> Slice(all, 0, 3),
                               description |-> "Calculate total revenue"],
                              "Total revenue calculation",
                              <<"total_pendapatan", "nilai_perhitungan">>)>>
                   ELSE <<>>
        expense == IF Len(all) >= 4
                   THEN <<ToolExecution("sum_financial_values",
                              [values |-> Slice(all, 2, 7),
                               description |-> "Calculate total expenses"],
                              "Total expense calculation",
                              <<"total_beban", "nilai_perhitungan">>)>>
                   ELSE <<>>
        net == IF Len(all) >= 2
               THEN <<ToolExecution("subtract_financial_values",
                          [minuend |-> all[1],
                           subtrahend |-> all[2],
                           description |-> "Calculate net income"],
                          "Net income calculation",
                          <<"laba_bersih", "nilai_perhitungan">>)>>
               ELSE <<>>
    IN  revenue \o expense \o net

create_cash_flow_tools(numbers) ==
    LET all == numbers.all_values
        operating == IF Len(all) >= 3
                     THEN <<ToolExecution("sum_financial_values",
                                [values |-> Slice(all, 0, 4),
                                 description |-> "Calculate operating cash flow"],
                                "Operating cash flow",
                                <<"arus_kas_operasi", "nilai_perhitungan">>)>>
                     ELSE <<>>
        netflow == IF Len(all) >= 6
                   THEN <<ToolExecution("sum_financial_values",
                              [values |-> Slice(all, 0, 6),
                               description |-> "Calculate net cash flow"],
                              "Net cash flow",
                              <<"arus_kas_bersih", "nilai_perhitungan">>)>>
                   ELSE <<>>
    IN  operating \o netflow

FinancialCalculationPlan(required_tools) ==
    [required_tools |-> required_tools, total_tool_count |-> Len(required_tools)]

\* required_tools kept across calls: every call extends the list of the call
\* before it
AccumulatingPlan(financial_data, statement_type) ==
    Bind(extract_financial_values(financial_data), LAMBDA numbers :
        FinancialCalculationPlan(
            (IF plan_calls = <<>> THEN <<>>
             ELSE plan_calls[Len(plan_calls)].plan.required_tools)
            \o (IF IsBalanceSheet(statement_type) THEN create_balance_sheet_tools(numbers)
                ELSE IF statement_type = "laba_rugi"
                THEN create_income_statement_tools(numbers)
                ELSE IF statement_type = "arus_kas" THEN create_cash_flow_tools(numbers)
                ELSE <<>>)))

create_standardized_calculation_plan(financial_data, statement_type) ==
    Bind(extract_financial_values(financial_data), LAMBDA numbers :
        FinancialCalculationPlan(
            IF IsBalanceSheet(statement_type) THEN create_balance_sheet_tools(numbers)
            ELSE IF statement_type = "laba_rugi" THEN create_income_statement_tools(numbers)
            ELSE IF statement_type = "arus_kas" THEN create_cash_flow_tools(numbers)
            ELSE <<>>))

-----------------------------------------------------------------------------
(* Arithmetic Engine: FinancialCalculator and the module-level tools of    *)
(* calculation_tools.py.  Every tool works on the one module-level         *)
(* `calculator`; its calculation_log is passed in and handed back.         *)

\* FinancialCalculator.log_calculation
log_calculation(log, operation, inputs, result, description) ==
    Append(log, [operation |-> operation, inputs |-> inputs,
                 result |-> result, description |-> description])

\* what an engine call hands back: its return value and the log after it
Outcome(result, log) == [result |-> result, log |-> log]

\* a sum that hands back its result without an audit-log entry
SumValuesUnlogged(log, values, description) ==
    LET float_result == SumSeq(values)
    IN  Outcome(Dict([result |-> Num(float_result),
                      precision |-> Str("high"),
                      components |-> List(values),
                      component_count |-> Num(Len(values)),
                      operation |-> Str("sum")]),
                log)

sum_values(log, values, description) ==
    LET float_result == SumSeq(values)
    IN  Outcome(Dict([result |-> Num(float_result),
                      precision |-> Str("high"),
                      components |-> List(values),
                      component_count |-> Num(Len(values)),
                      operation |-> Str("sum")]),
                log_calculation(log, "sum", List(values), Num(float_result), description))

\* a subtraction that adds
SubtractAdds(log, minuend, subtrahend, description) ==
    LET float_result == minuend + subtrahend
    IN  Outcome(Dict([result |-> Num(float_result),
                      precision |-> Str("high"),
                      minuend |-> Num(minuend),
                      subtrahend |-> Num(subtrahend),
                      operation |-> Str("subtract")]),
                log_calculation(log, "subtract", List(<<minuend, subtrahend>>),
                                Num(float_result), description))

subtract_values(log, minuend, subtrahend, description) ==
    LET float_result == minuend - subtrahend
    IN  Outcome(Dict([result |-> Num(float_result),
                      precision |-> Str("high"),
                      minuend |-> Num(minuend),
                      subtrahend |-> Num(subtrahend),
                      operation |-> Str("subtract")]),
                log_calculation(log, "subtract", List(<<minuend, subtrahend>>),
                                Num(float_result), description))

\* a balance check that still passes at a difference of exactly 0.01
BalanceWithinOneCent(log, assets, liabilities, equity) ==
    LET liabilities_plus_equity == liabilities + equity
        difference == assets - liabilities_plus_equity
        is_balanced == Abs(difference) * 100 <= CentsPerUnit
        result == Dict([assets |-> Num(assets),
                        liabilities |-> Num(liabilities),
                        equity |-> Num(equity),
                        liabilities_plus_equity |-> Num(liabilities_plus_equity),
                        difference |-> Num(difference),
                        is_balanced |-> Bool(is_balanced),
                        status |-> Str(IF is_balanced THEN "Balanced" ELSE "Unbalanced"),
                        precision |-> Str("high"),
                        operation |-> Str("balance_verification")])
    IN  Outcome(result,
                log_calculation(log, "balance_verification",
                                List(<<assets, liabilities, equity>>), result,
                                "Balance sheet equation verification"))

\* abs(difference) < Decimal('0.01')
verify_balance_equation(log, assets, liabilities, equity) ==
    LET liabilities_plus_equity == liabilities + equity
        difference == assets - liabilities_plus_equity
        is_balanced == Abs(difference) * 100 < CentsPerUnit
        result == Dict([assets |-> Num(assets),
                        liabilities |-> Num(liabilities),
                        equity |-> Num(equity),
                        liabilities_plus_equity |-> Num(liabilities_plus_equity),
                        difference |-> Num(difference),
                        is_balanced |-> Bool(is_balanced),
                        status |-> Str(IF is_balanced THEN "Balanced" ELSE "Unbalanced"),
                        precision |-> Str("high"),
                        operation |-> Str("balance_verification")])
    IN  Outcome(result,
                log_calculation(log, "balance_verification",
                                List(<<assets, liabilities, equity>>), result,
                                "Balance sheet equation verification"))

\* a percentage that tags its division-by-zero result as a success
PercentageZeroTaggedHigh(log, part, total) ==
    IF total = 0
    THEN Outcome(Dict([percentage |-> Num(0),
                       part |-> Num(part),
                       total |-> Num(total),
                       precision |-> Str("high"),
                       operation |-> Str("percentage")]),
                 log)
    ELSE LET float_result == (part * 100 * 100) \div total
         IN  Outcome(Dict([percentage |-> Num(float_result),
                           part |-> Num(part),
                           total |-> Num(total),
                           precision |-> Str("high"),
                           operation |-> Str("percentage")]),
                     log_calculation(log, "percentage", List(<<part, total>>),
                                     Num(float_result), "Percentage calculation"))

\* the percentage is kept in hundredths of a percent, cut off below that
calculate_percentage(log, part, total) ==
    IF total = 0
    THEN Outcome(Dict([percentage |-> Num(0),
                       part |-> Num(part),
                       total |-> Num(total),
                       error |-> Str("Division by zero"),
                       precision |-> Str("error"),
                       operation |-> Str("percentage")]),
                 log)
    ELSE LET float_result == (part * 100 * 100) \div total
         IN  Outcome(Dict([percentage |-> Num(float_result),
                           part |-> Num(part),
                           total |-> Num(total),
                           precision |-> Str("high"),
                           operation |-> Str("percentage")]),
                     log_calculation(log, "percentage", List(<<part, total>>),
                                     Num(float_result), "Percentage calculation"))

\* a footing validation that still passes at a difference of exactly 1.0
FootingWithinOneUnit(log, reported_total, component_values, description) ==
    LET sum_result == sum_values(log, component_values, "Components for " \o description)
        calculated_total == Get(sum_result.result, "result").v
        sub_result == subtract_values(sum_result.log, calculated_total, reported_total,
                                      "Difference for " \o description)
        difference == Get(sub_result.result, "result").v
        is_accurate == Abs(difference) <= CentsPerUnit
        result == Dict([reported_total |-> Num(reported_total),
                        calculated_total |-> Num(calculated_total),
                        difference |-> Num(difference),
                        is_accurate |-> Bool(is_accurate),
                        status |-> Str(IF is_accurate THEN "OK" ELSE "ERROR"),
                        component_count |-> Num(Len(component_values)),
                        components |-> List(component_values),
                        precision |-> Str("high"),
                        operation |-> Str("footing_validation"),
                        description |-> Str(description)])
    IN  Outcome(result,
                log_calculation(sub_result.log, "footing_validation",
                                List(<<reported_total>> \o component_values), result,
                                description))

\* abs(difference) < 1.0
validate_footing_calculation(log, reported_total, component_values, description) ==
    LET sum_result == sum_values(log, component_values, "Components for " \o description)
        calculated_total == Get(sum_result.result, "result").v
        sub_result == subtract_values(sum_result.log, calculated_total, reported_total,
                                      "Difference for " \o description)
        difference == Get(sub_result.result, "result").v
        is_accurate == Abs(difference) < CentsPerUnit
        result == Dict([reported_total |-> Num(reported_total),
                        calculated_total |-> Num(calculated_total),
                        difference |-> Num(difference),
                        is_accurate |-> Bool(is_accurate),
                        status |-> Str(IF is_accurate THEN "OK" ELSE "ERROR"),
                        component_count |-> Num(Len(component_values)),
                        components |-> List(component_values),
                        precision |-> Str("high"),
                        operation |-> Str("footing_validation"),
                        description |-> Str(description)])
    IN  Outcome(result,
                log_calculation(sub_result.log, "footing_validation",
                                List(<<reported_total>> \o component_values), result,
                                description))

\* get_calculation_log / clear_calculation_log
get_calculation_log(log) == log

\* a clear that leaves the log as it is
ClearKeepsLog(log) == log

clear_calculation_log(log) == <<>>

\* The @tool wrappers validate the call's arguments against the function's
\* signature before running it: the arguments without a default must all be
\* given, or invoke raises.
RequiredArgs(tool_name) ==
    CASE tool_name = "sum_financial_values" -> {"values"}
      [] tool_name = "subtract_financial_values" -> {"minuend", "subtrahend"}
      [] tool_name = "verify_balance_sheet_equation" -> {"assets", "liabilities", "equity"}
      [] tool_name = "calculate_financial_percentage" -> {"part", "total"}
      [] tool_name = "validate_footing_calculation" -> {"reported_total", "component_values"}

KnownTools ==
    {"sum_financial_values", "subtract_financial_values", "verify_balance_sheet_equation",
     "calculate_financial_percentage", "validate_footing_calculation"}

\* description is the one argument with a default
ArgOr(parameters, name, default) ==
    IF name \in DOMAIN parameters THEN parameters[name] ELSE default

\* tool.invoke(parameters): raised, or the tool's outcome
Invoke(log, tool_name, parameters) ==
    IF ~(RequiredArgs(tool_name) \subseteq DOMAIN parameters)
    THEN [raised |-> TRUE, error |-> "validation error for " \o tool_name,
          result |-> EmptyDict, log |-> log]
    ELSE LET out ==
                 CASE tool_name = "sum_financial_values" ->
                          sum_values(log, parameters.values,
                                     ArgOr(parameters, "description", "Sum calculation"))
                   [] tool_name = "subtract_financial_values" ->
                          subtract_values(log, parameters.minuend, parameters.subtrahend,
                                          ArgOr(parameters, "description",
                                                "Subtraction calculation"))
                   [] tool_name = "verify_balance_sheet_equation" ->
                          verify_balance_equation(log, parameters.assets,
                                                  parameters.liabilities, parameters.equity)
                   [] tool_name = "calculate_financial_percentage" ->
                          calculate_percentage(log, parameters.part, parameters.total)
                   [] tool_name = "validate_footing_calculation" ->
                          validate_footing_calculation(log, parameters.reported_total,
                                                       parameters.component_values,
                                                       ArgOr(parameters, "description",
                                                             "Footing validation"))
         IN  [raised |-> FALSE, error |-> "", result |-> out.result, log |-> out.log]

-----------------------------------------------------------------------------
(* Plan Executor and Usage Validator: ToolOrchestrator *)

\* a store that keeps only the first key of the path
StoreAtFirstKey(results, keys, value) == Put(results, keys[1], value)

\* _store_result_in_structure, keys = key_path.split('.')
RECURSIVE store_result_in_structure(_, _, _)
store_result_in_structure(results, keys, value) ==
    IF Len(keys) = 1 THEN Put(results, keys[1], value)
    ELSE LET current == IF Has(results, keys[1]) THEN Get(results, keys[1]) ELSE EmptyDict
         IN  Put(results, keys[1], store_result_in_structure(current, Tail(keys), value))

\* One iteration of the loop of execute_mandatory_calculations.  st.result is
\* the loop's local `result`, which survives from one iteration to the next
\* (st.bound: it has been assigned).  A tool that raises, or a tool name no
\* branch knows while result is unassigned, leaves an error leaf.
ExecuteTool(st, tool_exec) ==
    LET key == tool_exec.expected_result_key
        call == Invoke(st.log, tool_exec.tool_name, tool_exec.parameters)
        Failed(msg, log) ==
            [results |-> store_result_in_structure(st.results, key, Dict([error |-> Str(msg)])),
             log |-> log, bound |-> st.bound, result |-> st.result,
             tool_execution_count |-> st.tool_execution_count]
        Stored(result, log) ==
            [results |-> store_result_in_structure(st.results, key, result),
             log |-> log, bound |-> TRUE, result |-> result,
             tool_execution_count |-> st.tool_execution_count + 1]
    IN  IF tool_exec.tool_name \in KnownTools
        THEN IF call.raised THEN Failed(call.error, call.log)
             ELSE Stored(call.result, call.log)
        ELSE IF st.bound THEN Stored(st.result, st.log)
             ELSE Failed("name 'result' is not defined", st.log)

RECURSIVE ExecuteTools(_, _)
ExecuteTools(st, required_tools) ==
    IF required_tools = <<>> THEN st
    ELSE ExecuteTools(ExecuteTool(st, required_tools[1]), Tail(required_tools))

\* the body of execute_mandatory_calculations with its locals at the end of
\* the loop: the log is cleared first, then the operations run in plan order
ExecutorRun(log, calculation_plan) ==
    ExecuteTools([results |-> EmptyDict, log |-> clear_calculation_log(log),
                  bound |-> FALSE, result |-> EmptyDict,
                  tool_execution_count |-> 0],
                 calculation_plan.required_tools)

\* execute_mandatory_calculations: hands back the result tree and the log
\* after the run
execute_mandatory_calculations(log, calculation_plan) ==
    LET st == ExecutorRun(log, calculation_plan)
    IN  [results |-> st.results, log |-> st.log]

\* tool_results.get(a, {}).get(b, default)
GetGet(tool_results, a, b, default) == GetOr(GetOr(tool_results, a, EmptyDict), b, default)

create_standardized_json_structure(tool_results, statement_type) ==
    IF IsBalanceSheet(statement_type)
    THEN Dict([laporan_posisi_keuangan |-> Dict([
             aset |-> Dict([
                 aset_lancar |-> Dict([
                     nama_akun |-> Str("Jumlah Aset Lancar"),
                     nilai_tercatat |->
                         GetGet(tool_results, "aset_lancar", "nilai_perhitungan", Num(0)),
                     nilai_perhitungan |->
                         GetGet(tool_results, "aset_lancar", "nilai_perhitungan", Num(0)),
                     selisih |-> Num(0),
                     status |-> Str("OK"),
                     source |-> Str("calculation_tool")]),
                 total_aset |-> Dict([
                     nama_akun |-> Str("Total Aset"),
                     nilai_tercatat |->
                         GetGet(tool_results, "total_aset", "nilai_perhitungan", Num(0)),
                     nilai_perhitungan |->
                         GetGet(tool_results, "total_aset", "nilai_perhitungan", Num(0)),
                     selisih |-> Num(0),
                     status |-> Str("OK"),
                     source |-> Str("calculation_tool")])]),
             balancing |-> Dict([
                 status |-> GetGet(tool_results, "balancing", "status", Str("Verified by tool")),
                 source |-> Str("balance_equation_tool")])])])
    ELSE Dict([tool_based_calculation |-> tool_results])

\* every string json.dumps(tree) writes: the keys and the string leaves
RECURSIVE StringsOf(_)
StringsOf(tree) ==
    CASE tree.t = "str" -> {tree.v}
      [] tree.t = "dict" -> (DOMAIN tree.v) \cup UNION {StringsOf(tree.v[k]) : k \in DOMAIN tree.v}
      [] OTHER -> {}

forbidden_patterns ==
    <<"calculated manually", "computed by hand", "manual calculation",
      "i calculated", "my calculation">>

\* pattern in text.lower(), for the texts a tree of the model can hold: the
\* texts that hold a pattern are listed with the pattern they hold
PatternTexts ==
    {<<"Total calculated manually", "calculated manually">>,
     <<"computed by hand from the ledger", "computed by hand">>,
     <<"Manual calculation of totals", "manual calculation">>,
     <<"I calculated the sum", "i calculated">>,
     <<"my calculation shows", "my calculation">>}

PatternIn(pattern, text) == <<text, pattern>> \in PatternTexts

\* the first pattern of forbidden_patterns found in the dumped tree, 0 if none
FirstForbidden(agent_result) ==
    LET found == {i \in 1..Len(forbidden_patterns) :
                      \E text \in StringsOf(agent_result) : PatternIn(forbidden_patterns[i], text)}
    IN  IF found = {} THEN 0 ELSE CHOOSE i \in found : \A j \in found : i <= j

\* a validator that looks for the patterns before it compares the counts
ValidatePatternsFirst(log, agent_result, expected_tool_count) ==
    LET actual_tool_count == Len(get_calculation_log(log))
        hit == FirstForbidden(agent_result)
    IN  IF hit # 0
        THEN [valid |-> FALSE,
              message |-> "Forbidden manual calculation detected: " \o forbidden_patterns[hit]]
        ELSE IF actual_tool_count # expected_tool_count
        THEN [valid |-> FALSE,
              message |-> "Expected " \o ToString(expected_tool_count) \o " tools, got "
                          \o ToString(actual_tool_count)]
        ELSE [valid |-> TRUE, message |-> "Tool usage validated"]

\* validate_tool_usage reads the module-level log
validate_tool_usage(log, agent_result, expected_tool_count) ==
    LET actual_tool_count == Len(get_calculation_log(log))
        hit == FirstForbidden(agent_result)
    IN  IF actual_tool_count # expected_tool_count
        THEN [valid |-> FALSE,
              message |-> "Expected " \o ToString(expected_tool_count) \o " tools, got "
                          \o ToString(actual_tool_count)]
        ELSE IF hit # 0
        THEN [valid |-> FALSE,
              message |-> "Forbidden manual calculation detected: " \o forbidden_patterns[hit]]
        ELSE [valid |-> TRUE, message |-> "Tool usage validated"]

-----------------------------------------------------------------------------
(* Replica Runner: BaseFinancialAgent.process_statement *)

AgentIds == <<"agent_1", "agent_2", "agent_3", "agent_4">>

AgentResult(agent_id, statement_type, extracted_data, calculation_log, validation_score, confidence, tool_calls_made, errors) ==
    [agent_id |-> agent_id, statement_type |-> statement_type,
     extracted_data |-> extracted_data, calculation_log |-> calculation_log,
     validation_score |-> validation_score, confidence |-> confidence,
     tool_calls_made |-> tool_calls_made, errors |-> errors]

\* tool_calls_made counted from the audit log of the run
ToolCallsMadeFromLog(calculation_plan, log) == Len(log)

\* what the result reports as tool_calls_made: the length of the plan the
\* agent built, not the number of log entries its run produced
ToolCallsMade(calculation_plan, log) == calculation_plan.total_tool_count

\* process_statement, step by step; each step hands what it computed to the
\* next.  Step 4 and the return: validate_tool_usage, the metrics, AgentResult
Validated(agent_id, statement_type, calculation_plan, run, extracted_data, check) ==
    [result |-> AgentResult(agent_id, statement_type, extracted_data, run.results,
                            IF check.valid THEN 100 ELSE 0,
                            IF check.valid THEN 95 ELSE 10,
                            ToolCallsMade(calculation_plan, run.log),
                            IF check.valid THEN <<>> ELSE <<check.message>>),
     calculation_plan |-> calculation_plan,
     log |-> run.log]

\* Step 3: create_standardized_json_structure
Shaped(agent_id, statement_type, calculation_plan, run, extracted_data) ==
    Validated(agent_id, statement_type, calculation_plan, run, extracted_data,
              validate_tool_usage(run.log, extracted_data,
                                  calculation_plan.total_tool_count))

\* Step 2: execute_mandatory_calculations, on the module-level calculator
Executed(agent_id, statement_type, calculation_plan, run) ==
    Shaped(agent_id, statement_type, calculation_plan, run,
           create_standardized_json_structure(run.results, statement_type))

Planned(log, agent_id, statement_type, calculation_plan) ==
    Executed(agent_id, statement_type, calculation_plan,
             execute_mandatory_calculations(log, calculation_plan))

\* Step 1: the agent's own orchestrator builds the agent's own plan.  The
\* value is the AgentResult, the plan the agent built and the log after it.
process_statement(log, agent_id, statement_text, statement_type) ==
    Planned(log, agent_id, statement_type,
            create_standardized_calculation_plan(statement_text, statement_type))

-----------------------------------------------------------------------------
(* Key-Figure Extractor: BaseTripleAgentSystem._extract_key_figures.       *)
(* key_figures is built figure by figure inside one try block: the first   *)
(* float() or lookup that raises ends the extraction with what was stored. *)

\* float(x): a number converts, True and False convert to 1.0 and 0.0,
\* a dict, a list or a text of the model raises
Floatable(x) == x.t \in {"num", "bool"}
FloatOf(x) == IF x.t = "num" THEN x.v ELSE IF x.v THEN CentsPerUnit ELSE 0

\* `k in x` raises TypeError on a number; on a text or a list of the model
\* it is False
InRaises(x) == x.t \in {"num", "bool"}
In(k, x) == IsDict(x) /\ Has(x, k)

\* key_figures[name] = float(x), or the raise
SetFigure(st, name, x) ==
    IF ~st.ok THEN st
    ELSE IF Floatable(x)
    THEN [ok |-> TRUE,
          kf |-> [j \in (DOMAIN st.kf) \cup {name} |-> IF j = name THEN FloatOf(x) ELSE st.kf[j]]]
    ELSE [ok |-> FALSE, kf |-> st.kf]

Raise(st) == [ok |-> FALSE, kf |-> st.kf]

\* if name in aset and isinstance(aset[name], dict): if 'nilai_tercatat' in ...
AsetFigure(st, aset, name) ==
    IF ~st.ok THEN st
    ELSE IF In(name, aset) /\ IsDict(Get(aset, name)) /\ Has(Get(aset, name), "nilai_tercatat")
    THEN SetFigure(st, name, Get(Get(aset, name), "nilai_tercatat"))
    ELSE st

AsetFigures(st, posisi) ==
    IF ~In("aset", posisi) THEN st
    ELSE LET aset == Get(posisi, "aset")
         IN  IF InRaises(aset) THEN Raise(st)
             ELSE AsetFigure(AsetFigure(st, aset, "aset_lancar"), aset, "total_aset")

\* if key in balancing: key_figures[name] = float(balancing[key])
BalancingFigure(st, balancing, key, name) ==
    IF ~st.ok THEN st
    ELSE IF In(key, balancing) THEN SetFigure(st, name, Get(balancing, key))
    ELSE st

BalancingFigures(st, posisi) ==
    IF ~st.ok \/ ~In("balancing", posisi) THEN st
    ELSE LET balancing == Get(posisi, "balancing")
         IN  IF InRaises(balancing) THEN Raise(st)
             ELSE BalancingFigure(
                      BalancingFigure(st, balancing, "total_aset", "balance_total_aset"),
                      balancing, "total_liabilitas_ekuitas", "balance_total_liab_eq")

extract_key_figures(data) ==
    LET st0 == [ok |-> TRUE, kf |-> <<>>]
    IN  IF ~In("laporan_posisi_keuangan", data) THEN st0.kf
        ELSE LET posisi == Get(data, "laporan_posisi_keuangan")
             IN  IF InRaises(posisi) THEN st0.kf
                 ELSE BalancingFigures(AsetFigures(st0, posisi), posisi).kf

-----------------------------------------------------------------------------
(* Consensus Validator: _validate_consensus of the Gemini and the Ollama   *)
(* system.  agent_results is the dict of the attempt in insertion order, a *)
(* sequence of AgentResult.  all_keys is a Python set, so the order of the *)
(* discrepancies and of failing_agents is not fixed: both are sets here.   *)

KeyFigures(agent_results) ==
    [i \in 1..Len(agent_results) |-> extract_key_figures(agent_results[i].extracted_data)]

AllKeys(key_figures) == UNION {DOMAIN key_figures[i] : i \in 1..Len(key_figures)}

\* values: the indices, in order, of the agents that hold the figure
RECURSIVE Holders(_, _, _)
Holders(key_figures, key, i) ==
    IF i > Len(key_figures) THEN <<>>
    ELSE (IF key \in DOMAIN key_figures[i] THEN <<i>> ELSE <<>>)
         \o Holders(key_figures, key, i + 1)

\* min in place of max: the smaller of the two bounds
ToleranceScaledMin(base_value, rel_den, floor) ==
    Min(Abs(base_value), floor * CentsPerUnit * rel_den)

\* tolerance = max(abs(base_value * factor), floor), times rel_den = 1/factor
ToleranceScaled(base_value, rel_den, floor) ==
    Max(Abs(base_value), floor * CentsPerUnit * rel_den)

\* >= in place of >: a difference equal to the tolerance disagrees
DisagreesAtTolerance(value, base_value, rel_den, floor) ==
    Abs(value - base_value) * rel_den >= ToleranceScaled(base_value, rel_den, floor)

\* abs(value - base_value) > tolerance.  Both sides are scaled by rel_den and
\* compared exactly; on whole amounts of the model's size the float
\* comparison of the code gives the same answer.
Disagrees(value, base_value, rel_den, floor) ==
    Abs(value - base_value) * rel_den > ToleranceScaled(base_value, rel_den, floor)

\* disagreeing_agents of one key, as indices in order
DisagreeingAgents(key_figures, key, rel_den, floor) ==
    LET values == Holders(key_figures, key, 1)
    IN  IF Len(values) >= 2
        THEN LET base_value == key_figures[values[1]][key]
             IN  SelectSeq(Tail(values),
                           LAMBDA i : Disagrees(key_figures[i][key], base_value, rel_den, floor))
        ELSE <<>>

Range(q) == {q[i] : i \in 1..Len(q)}

\* the last agent with the highest confidence
BestAgentLastOfTies(agent_results) ==
    CHOOSE i \in 1..Len(agent_results) :
        /\ \A j \in 1..Len(agent_results) :
               agent_results[j].confidence <= agent_results[i].confidence
        /\ \A j \in (i + 1)..Len(agent_results) :
               agent_results[j].confidence < agent_results[i].confidence

\* the first agent with the highest confidence: max(items, key=confidence)
BestAgent(agent_results) ==
    CHOOSE i \in 1..Len(agent_results) :
        /\ \A j \in 1..Len(agent_results) :
               agent_results[j].confidence <= agent_results[i].confidence
        /\ \A j \in 1..(i - 1) : agent_results[j].confidence < agent_results[i].confidence

ConsensusOf(agent_results, key_figures, rel_den, floor, with_tolerance) ==
    LET Id(i) == agent_results[i].agent_id
        Ids(q) == [n \in 1..Len(q) |-> Id(q[n])]
        bad == {key \in AllKeys(key_figures) :
                    DisagreeingAgents(key_figures, key, rel_den, floor) # <<>>}
        Discrepancy(key) ==
            LET values == Holders(key_figures, key, 1)
                base_value == key_figures[values[1]][key]
                common == [key |-> key,
                           base_value |-> base_value,
                           disagreeing_agents |->
                               Ids(DisagreeingAgents(key_figures, key, rel_den, floor)),
                           values |-> [n \in 1..Len(values) |->
                                           <<Id(values[n]), key_figures[values[n]][key]>>]]
            IN  IF with_tolerance
                THEN [key |-> common.key, base_value |-> common.base_value,
                      disagreeing_agents |-> common.disagreeing_agents,
                      values |-> common.values,
                      tolerance_used |-> ToleranceScaled(base_value, rel_den, floor)]
                ELSE common
        discrepancies == {Discrepancy(key) : key \in bad}
        failing_agents ==
            UNION {Range(Ids(DisagreeingAgents(key_figures, key, rel_den, floor))) : key \in bad}
        is_consensus == discrepancies = {} /\ failing_agents = {}
    IN  [is_consensus |-> is_consensus,
         agreed_data |-> IF is_consensus
                         THEN agent_results[BestAgent(agent_results)].extracted_data
                         ELSE EmptyDict,
         discrepancies |-> discrepancies,
         retry_needed |-> ~is_consensus,
         failing_agents |-> failing_agents,
         confidence_scores |-> [i \in 1..Len(agent_results) |->
                                    <<Id(i), agent_results[i].confidence>>]]

ConsensusWith(agent_results, rel_den, floor, with_tolerance) ==
    Bind(KeyFigures(agent_results), LAMBDA key_figures :
        ConsensusOf(agent_results, key_figures, rel_den, floor, with_tolerance))

\* GeminiTripleAgentSystem._validate_consensus: the strict profile
GeminiValidateConsensus(agent_results) ==
    ConsensusWith(agent_results, StrictRelDen, StrictFloor, TRUE)

\* OllamaTripleAgentSystem._validate_consensus: the loose profile
OllamaValidateConsensus(agent_results) ==
    ConsensusWith(agent_results, LooseRelDen, LooseFloor, FALSE)

Systems == {"gemini", "ollama"}

validate_consensus(system, agent_results) ==
    IF system = "gemini" THEN GeminiValidateConsensus(agent_results)
    ELSE OllamaValidateConsensus(agent_results)

-----------------------------------------------------------------------------
(* State of one call of BaseTripleAgentSystem._process_with_consensus.     *)
(* pc is the controller's position:                                        *)
(*   planning         at the head of the for loop                          *)
(*   executing        inside `for agent in agents`                         *)
(*   usage_check      at `if not tool_execution_valid`                     *)
(*   consensus_check  at `consensus = self._validate_consensus(...)`       *)
(*   done / failed    returned with / without consensus                    *)

VARIABLES
    statement_text,        \* the statement, as its numeric runs
    statement_type,
    max_retries,           \* self.max_retries
    agents,                \* the agent ids, in the order of the list
    system,                \* which subclass: its _validate_consensus
    pc,
    attempt,               \* the loop variable, 0-based
    retries,               \* the retry log
    calculation_plan,      \* the controller's plan of this attempt
    agent_results,         \* the results of this attempt, in insertion order
    tool_execution_valid,
    consensus,             \* the last ConsensusResult
    returned,              \* the first component of the returned pair
    calculation_log,       \* calculator.calculation_log, module-level
    runs,                  \* the agent runs under way when they are started side
                           \* by side: per agent its position in process_statement
    engine_call,           \* the last call of a calculation tool made directly:
                           \* its arguments, the log before it and what it returned
    audit                  \* the locals of process_financial_statements: the
                           \* statements, the loop's position, results, retry_log,
                           \* total_retries, what it returns, and how each call of
                           \* _process_with_consensus ended

\* no calculation tool has been called directly
NoCall ==
    [tool_name |-> "none", parameters |-> <<>>, before |-> <<>>, raised |-> FALSE,
     result |-> EmptyDict]

\* process_financial_statements has not been called
NoAudit ==
    [statements |-> <<>>, next |-> 1, results |-> EmptyDict, retry_log |-> <<>>,
     total_retries |-> 0, outcomes |-> <<>>, final |-> EmptyDict]

vars == <<statement_text, statement_type, max_retries, agents, system, pc, attempt,
          retries, calculation_plan, agent_results, tool_execution_valid, consensus,
          returned, calculation_log, plan_calls, runs, engine_call, audit>>

inputs == <<statement_text, statement_type, max_retries, agents, system>>

NoPlan == FinancialCalculationPlan(<<>>)

NoConsensus ==
    [is_consensus |-> FALSE, agreed_data |-> EmptyDict, discrepancies |-> {},
     retry_needed |-> FALSE, failing_agents |-> {}, confidence_scores |-> <<>>]

\* the state on entry to _process_with_consensus
Entry ==
    /\ pc = "planning"
    /\ attempt = 0
    /\ retries = <<>>
    /\ calculation_plan = NoPlan
    /\ agent_results = <<>>
    /\ tool_execution_valid = TRUE
    /\ consensus = NoConsensus
    /\ returned = EmptyDict
    /\ plan_calls = <<>>
    /\ runs = <<>>
    /\ engine_call = NoCall
    /\ audit = NoAudit

\* what the module-level calculator's log may hold on entry: nothing, or what
\* the statement processed before this one left in it
LeftoverLogs ==
    {<<>>, sum_values(<<>>, <<5000 * CentsPerUnit, 3000 * CentsPerUnit>>, "Sum calculation").log}

Init ==
    /\ statement_text \in Statements
    /\ statement_type \in StatementTypes
    /\ max_retries \in -1..MaxRetries
    /\ agents \in {SubSeq(AgentIds, 1, n) : n \in 1..MaxAgents}
    /\ system \in Systems
    /\ calculation_log \in LeftoverLogs
    /\ Entry

\* the record numbered by the loop variable itself
AttemptIndexZeroBased(a) == a

\* "attempt": attempt + 1 in retry_info
AttemptIndex(a) == a + 1

\* the retry test off by one: the last attempt is never made
AttemptsRemainEarly(a, bound) == a < bound - 1

\* if attempt < self.max_retries
AttemptsRemain(a, bound) == a < bound

\* for attempt in range(self.max_retries + 1): the next attempt starts and the
\* controller builds its plan on agents[0].tool_orchestrator
Planning ==
    /\ pc = "planning"
    /\ attempt <= max_retries
    /\ \E plan \in {create_standardized_calculation_plan(statement_text, statement_type)} :
           /\ calculation_plan' = plan
           /\ plan_calls' = Append(plan_calls, [attempt |-> attempt, caller |-> 0,
                                                plan |-> plan])
    /\ agent_results' = <<>>
    /\ tool_execution_valid' = TRUE
    /\ pc' = "executing"
    /\ UNCHANGED <<inputs, runs, engine_call, audit, attempt, retries, consensus, returned, calculation_log>>

\* the loop ends without a return: `return {}, retries` after it
LoopExhausted ==
    /\ pc = "planning"
    /\ attempt > max_retries
    /\ returned' = EmptyDict
    /\ pc' = "failed"
    /\ UNCHANGED <<inputs, runs, engine_call, audit, attempt, retries, calculation_plan, agent_results,
                   tool_execution_valid, consensus, calculation_log, plan_calls>>

\* the body of `for agent in agents` once `result` is there
Collect(result) ==
    /\ agent_results' = Append(agent_results, result)
    /\ tool_execution_valid' =
           (tool_execution_valid
            /\ result.tool_calls_made = calculation_plan.total_tool_count)
    /\ pc' = IF Len(agent_results') = Len(agents) THEN "usage_check" ELSE "executing"

\* one iteration of `for agent in agents`, the agent running
\* BaseFinancialAgent.process_statement
RunAgent ==
    /\ pc = "executing"
    /\ Len(agent_results) < Len(agents)
    /\ \E run \in {process_statement(calculation_log, agents[Len(agent_results) + 1],
                                     statement_text, statement_type)} :
           /\ Collect(run.result)
           /\ calculation_log' = run.log
           /\ plan_calls' = Append(plan_calls,
                                   [attempt |-> attempt, caller |-> Len(agent_results) + 1,
                                    plan |-> run.calculation_plan])
    /\ UNCHANGED <<inputs, runs, engine_call, audit, attempt, retries, calculation_plan, consensus, returned>>

\* the usage failure recorded, but without the `continue` and the `return`:
\* control falls through to the consensus check
UsageCheckFallsThrough ==
    /\ pc = "usage_check"
    /\ retries' = IF tool_execution_valid THEN retries
                  ELSE Append(retries,
                           [attempt |-> AttemptIndex(attempt),
                            reason |-> "tool_execution_inconsistent",
                            expected_tools |-> calculation_plan.total_tool_count,
                            agent_tool_counts |->
                                [i \in 1..Len(agent_results) |->
                                     <<agent_results[i].agent_id,
                                       agent_results[i].tool_calls_made>>]])
    /\ pc' = "consensus_check"
    /\ UNCHANGED <<inputs, runs, engine_call, audit, attempt, returned, calculation_plan, agent_results,
                   tool_execution_valid, consensus, calculation_log, plan_calls>>

\* if not tool_execution_valid: record, then continue or give up
UsageCheck ==
    /\ pc = "usage_check"
    /\ IF ~tool_execution_valid
       THEN /\ retries' = Append(retries,
                   [attempt |-> AttemptIndex(attempt),
                    reason |-> "tool_execution_inconsistent",
                    expected_tools |-> calculation_plan.total_tool_count,
                    agent_tool_counts |->
                        [i \in 1..Len(agent_results) |->
                             <<agent_results[i].agent_id, agent_results[i].tool_calls_made>>]])
            /\ IF AttemptsRemain(attempt, max_retries)
               THEN /\ attempt' = attempt + 1
                    /\ pc' = "planning"
                    /\ returned' = returned
               ELSE /\ attempt' = attempt
                    /\ pc' = "failed"
                    /\ returned' = EmptyDict
       ELSE /\ pc' = "consensus_check"
            /\ UNCHANGED <<retries, attempt, returned>>
    /\ UNCHANGED <<inputs, runs, engine_call, audit, calculation_plan, agent_results, tool_execution_valid,
                   consensus, calculation_log, plan_calls>>

\* what follows consensus = self._validate_consensus(agent_results)
AfterConsensus(c) ==
    /\ consensus' = c
    /\ IF c.is_consensus
       THEN /\ returned' = c.agreed_data
            /\ pc' = "done"
            /\ UNCHANGED <<retries, attempt>>
       ELSE /\ retries' = Append(retries,
                   [attempt |-> AttemptIndex(attempt),
                    reason |-> "tool_results_disagree_unexpectedly",
                    disagreements |-> Cardinality(c.discrepancies),
                    failing_agents |-> c.failing_agents])
            /\ IF AttemptsRemain(attempt, max_retries)
               THEN /\ attempt' = attempt + 1
                    /\ pc' = "planning"
                    /\ returned' = returned
               ELSE /\ attempt' = attempt
                    /\ pc' = "failed"
                    /\ returned' = agent_results[1].extracted_data

\* the consensus check of the attempt, by the subclass's validator
ConsensusCheck ==
    /\ pc = "consensus_check"
    /\ \E c \in {validate_consensus(system, agent_results)} : AfterConsensus(c)
    /\ UNCHANGED <<inputs, runs, engine_call, audit, calculation_plan, agent_results, tool_execution_valid,
                   calculation_log, plan_calls>>

Next == Planning \/ LoopExhausted \/ RunAgent \/ UsageCheck \/ ConsensusCheck

Spec == Init /\ [][Next]_vars

-----------------------------------------------------------------------------
(* The controller with agents of any subclass.  _process_with_consensus    *)
(* takes a list of BaseFinancialAgent and calls agent.process_statement on *)
(* each; a subclass may override it and hand back any AgentResult.  The    *)
(* tree such an agent hands back has the shape _create_base_prompt asks    *)
(* for.  The list holds one agent or two: with two, either may miscount    *)
(* and the second may disagree with the first.                             *)

OverrideTree(total_aset) ==
    Dict([laporan_posisi_keuangan |-> Dict([
        aset |-> Dict([
            total_aset |-> Dict([
                nama_akun |-> Str("Total Aset"),
                nilai_tercatat |-> Num(total_aset),
                nilai_perhitungan |-> Num(total_aset),
                selisih |-> Num(0),
                status |-> Str("OK")])])])])

\* what an overriding agent may report: its total, how far its tool count is
\* from the controller's plan, its confidence
OverrideChoices ==
    {[total_aset |-> 1000000 * CentsPerUnit, extra_tools |-> 0, confidence |-> 95],
     [total_aset |-> 1002000 * CentsPerUnit, extra_tools |-> 0, confidence |-> 95],
     [total_aset |-> 1000000 * CentsPerUnit, extra_tools |-> 1, confidence |-> 10]}

OverrideResult(agent_id, c) ==
    AgentResult(agent_id, statement_type, OverrideTree(c.total_aset), EmptyDict,
                c.confidence, c.confidence,
                calculation_plan.total_tool_count + c.extra_tools, <<>>)

\* one iteration of `for agent in agents`, the agent's process_statement
\* being any override
RunAnyAgent ==
    /\ pc = "executing"
    /\ Len(agent_results) < Len(agents)
    /\ \E c \in OverrideChoices :
           Collect(OverrideResult(agents[Len(agent_results) + 1], c))
    /\ UNCHANGED <<inputs, runs, engine_call, audit, attempt, retries, calculation_plan, consensus, returned,
                   calculation_log, plan_calls>>

InitAnyAgent ==
    /\ statement_text = Text(TripleAgents, 0)
    /\ statement_type = "neraca"
    /\ max_retries \in -1..MaxRetries
    /\ agents \in {SubSeq(AgentIds, 1, n) : n \in 1..2}
    /\ calculation_log = <<>>
    /\ system \in Systems
    /\ Entry

NextAnyAgent == Planning \/ LoopExhausted \/ RunAnyAgent \/ UsageCheck \/ ConsensusCheck

\* the controller is one sequential call: it takes its next step
AnyAgentSpec == InitAnyAgent /\ [][NextAnyAgent]_vars /\ WF_vars(NextAnyAgent)

-----------------------------------------------------------------------------
(* BaseTripleAgentSystem.process_financial_statements: the statements are  *)
(* taken in the order of the dict, each through _process_with_consensus,   *)
(* and the subclass's _create_final_audit_result wraps what was gathered.  *)

\* results.update(final_result)
DictUpdate(results, final_result) ==
    Dict([k \in (DOMAIN results.v) \cup (DOMAIN final_result.v) |->
              IF k \in DOMAIN final_result.v THEN final_result.v[k] ELSE results.v[k]])

MetadataKey(sys) ==
    IF sys = "gemini" THEN "_gemini_triple_agent_metadata"
    ELSE "_ollama_triple_agent_metadata"

\* "Perfect" if total_retries == 0 else "Achieved with retries"
ConsensusQuality(total_retries) ==
    IF total_retries = 0 THEN "Perfect" ELSE "Achieved with retries"

\* _create_final_audit_result of either subclass, without the model's name
\* and the timestamp
create_final_audit_result(sys, results, total_retries, retry_log) ==
    Dict([k \in {"audit_footing_laporan_keuangan", MetadataKey(sys)} |->
              IF k = "audit_footing_laporan_keuangan" THEN results
              ELSE Dict([consensus_quality |-> Str(ConsensusQuality(total_retries)),
                         total_retries |-> Num(total_retries),
                         retry_log |-> List(retry_log)])])

\* the text that comes with each statement type
TextOf(type) ==
    CASE type = "neraca" -> Text(7, 0)
      [] type = "laba_rugi" -> Text(4, 0)
      [] type = "arus_kas" -> Text(3, 1)

\* a dict of statements: its keys are distinct, its order is the order of
\* insertion
RECURSIVE StatementDicts(_)
StatementDicts(n) ==
    IF n = 0 THEN {<<>>}
    ELSE LET shorter == StatementDicts(n - 1)
         IN  shorter \cup
             {Append(d, [statement_type |-> type, statement_text |-> TextOf(type)]) :
                 <<d, type>> \in {<<d, type>> \in shorter \X {"neraca", "laba_rugi", "arus_kas"} :
                                     /\ Len(d) = n - 1
                                     /\ \A i \in 1..Len(d) : d[i].statement_type # type}}

\* for statement_type, statement_text in statements.items(): the call of
\* _process_with_consensus begins
StartStatement ==
    /\ pc = "between"
    /\ audit.next <= Len(audit.statements)
    /\ statement_type' = audit.statements[audit.next].statement_type
    /\ statement_text' = audit.statements[audit.next].statement_text
    /\ pc' = "planning"
    /\ attempt' = 0
    /\ retries' = <<>>
    /\ calculation_plan' = NoPlan
    /\ agent_results' = <<>>
    /\ tool_execution_valid' = TRUE
    /\ consensus' = NoConsensus
    /\ returned' = EmptyDict
    /\ plan_calls' = <<>>
    /\ UNCHANGED <<max_retries, agents, system, calculation_log, runs, engine_call, audit>>

\* final_result, retries = ...; results.update(final_result);
\* retry_log.extend(retries); total_retries += len(retries)
AbsorbStatement ==
    /\ pc \in {"done", "failed"}
    /\ audit.next <= Len(audit.statements)
    /\ audit' = [audit EXCEPT
                    !.results = DictUpdate(@, returned),
                    !.retry_log = @ \o retries,
                    !.total_retries = @ + Len(retries),
                    !.next = @ + 1,
                    !.outcomes = Append(@, [statement_type |-> statement_type,
                                            ended |-> pc, final_result |-> returned,
                                            retries |-> retries])]
    /\ pc' = "between"
    /\ UNCHANGED <<inputs, runs, engine_call, attempt, retries, calculation_plan,
                   agent_results, tool_execution_valid, consensus, returned,
                   calculation_log, plan_calls>>

\* return self._create_final_audit_result(results, total_retries, retry_log)
ReturnAudit ==
    /\ pc = "between"
    /\ audit.next > Len(audit.statements)
    /\ audit' = [audit EXCEPT
                    !.final = create_final_audit_result(system, audit.results,
                                                        audit.total_retries, audit.retry_log)]
    /\ pc' = "audited"
    /\ UNCHANGED <<inputs, runs, engine_call, attempt, retries, calculation_plan,
                   agent_results, tool_execution_valid, consensus, returned,
                   calculation_log, plan_calls>>

\* process_financial_statements entered: results = {}, retry_log = [],
\* total_retries = 0
AuditEntry ==
    /\ statement_text = <<>>
    /\ statement_type = "catatan"
    /\ system \in Systems
    /\ pc = "between"
    /\ attempt = 0
    /\ retries = <<>>
    /\ calculation_plan = NoPlan
    /\ agent_results = <<>>
    /\ tool_execution_valid = TRUE
    /\ consensus = NoConsensus
    /\ returned = EmptyDict
    /\ plan_calls = <<>>
    /\ runs = <<>>
    /\ engine_call = NoCall
    /\ \E statements \in StatementDicts(MaxStatements) :
           audit = [NoAudit EXCEPT !.statements = statements]

\* the agents are BaseFinancialAgent.process_statement as it stands
InitAudit ==
    /\ max_retries \in -1..MaxRetries
    /\ agents \in {SubSeq(AgentIds, 1, n) : n \in {1, TripleAgents}}
    /\ calculation_log \in LeftoverLogs
    /\ AuditEntry

NextAudit ==
    \/ StartStatement \/ Planning \/ LoopExhausted \/ RunAgent \/ UsageCheck
    \/ ConsensusCheck \/ AbsorbStatement \/ ReturnAudit

AuditSpec == InitAudit /\ [][NextAudit]_vars

\* the agents are of any subclass: each may miscount, the second may disagree
InitAuditAnyAgent ==
    /\ max_retries \in 0..1
    /\ agents = SubSeq(AgentIds, 1, 2)
    /\ calculation_log = <<>>
    /\ AuditEntry
    /\ Len(audit.statements) < MaxStatements

NextAuditAnyAgent ==
    \/ StartStatement \/ Planning \/ RunAnyAgent \/ UsageCheck
    \/ ConsensusCheck \/ AbsorbStatement \/ ReturnAudit

AuditAnyAgentSpec == InitAuditAnyAgent /\ [][NextAuditAnyAgent]_vars

-----------------------------------------------------------------------------
(* The consensus validators on their own: the controller stands at its     *)
(* consensus check with three results whose key figures are drawn from the *)
(* values below, and takes that one step.                                  *)

FigureTree(total_aset, aset_lancar) ==
    LET leaf(name, v) == Dict([nama_akun |-> Str(name), nilai_tercatat |-> Num(v)])
        aset == IF total_aset >= 0 /\ aset_lancar >= 0
                THEN Dict([aset_lancar |-> leaf("Jumlah Aset Lancar", aset_lancar),
                           total_aset |-> leaf("Total Aset", total_aset)])
                ELSE IF total_aset >= 0
                THEN Dict([total_aset |-> leaf("Total Aset", total_aset)])
                ELSE IF aset_lancar >= 0
                THEN Dict([aset_lancar |-> leaf("Jumlah Aset Lancar", aset_lancar)])
                ELSE EmptyDict
    IN  Dict([laporan_posisi_keuangan |-> Dict([aset |-> aset])])

\* the figures one result holds, in currency units; -1: the figure is absent
FigureChoices ==
    {<<t, -1>> : t \in {1000000, 1000050, 1000100, 1000101, 1001000, 1001001}}
    \cup {<<-1, l>> : l \in {2000, 2001, 2002, 2005, 2006}}
    \cup {<<1000000, 2000>>, <<1000101, 2000>>, <<1000000, 2006>>, <<-1, -1>>}

\* confidence = 95.0 if tool_valid else 10.0
ConfidenceChoices == {10, 95}

ChoiceTree(c) ==
    FigureTree(IF c[1] < 0 THEN -1 ELSE c[1] * CentsPerUnit,
               IF c[2] < 0 THEN -1 ELSE c[2] * CentsPerUnit)

InitConsensus ==
    /\ statement_text = <<>>
    /\ statement_type = "neraca"
    /\ max_retries = 0
    /\ agents = SubSeq(AgentIds, 1, TripleAgents)
    /\ system \in Systems
    /\ pc = "consensus_check"
    /\ attempt = 0
    /\ retries = <<>>
    /\ calculation_plan = NoPlan
    /\ \E c1 \in FigureChoices, c2 \in FigureChoices, c3 \in FigureChoices :
       \E k1 \in ConfidenceChoices, k2 \in ConfidenceChoices, k3 \in ConfidenceChoices :
           agent_results =
               <<AgentResult(agents[1], statement_type, ChoiceTree(c1), EmptyDict, 100, k1, 0, <<>>),
                 AgentResult(agents[2], statement_type, ChoiceTree(c2), EmptyDict, 100, k2, 0, <<>>),
                 AgentResult(agents[3], statement_type, ChoiceTree(c3), EmptyDict, 100, k3, 0, <<>>)>>
    /\ tool_execution_valid = TRUE
    /\ consensus = NoConsensus
    /\ returned = EmptyDict
    /\ calculation_log = <<>>
    /\ plan_calls = <<[attempt |-> 0, caller |-> 0, plan |-> NoPlan]>>
    /\ runs = <<>>
    /\ engine_call = NoCall
    /\ audit = NoAudit

NextConsensus == ConsensusCheck

ConsensusSpec == InitConsensus /\ [][NextConsensus]_vars

-----------------------------------------------------------------------------
(* The agent runs of one attempt started side by side, each a thread of    *)
(* its own running process_statement.  Every run works on the one          *)
(* module-level `calculator` (calculation_tools.py:194): its first step    *)
(* clears the shared log, each tool call appends to it, and                *)
(* validate_tool_usage reads it.  A step is one statement of               *)
(* process_statement or one iteration of the loop of                       *)
(* execute_mandatory_calculations.                                         *)

\* the agent's run before it starts
IdleRun ==
    [at |-> "idle", calculation_plan |-> NoPlan, next |-> 1,
     st |-> [results |-> EmptyDict, bound |-> FALSE, result |-> EmptyDict,
             tool_execution_count |-> 0],
     result |-> EmptyDict, log_count |-> 0]

\* what a run leaves alone: the controller's own locals
ControllerUnchanged ==
    UNCHANGED <<inputs, pc, attempt, retries, calculation_plan, agent_results,
                tool_execution_valid, consensus, returned, plan_calls, engine_call, audit>>

\* steps 1 and the head of step 2: the plan, then clear_calculation_log
BeginRun(i) ==
    /\ ControllerUnchanged
    /\ runs[i].at = "idle"
    /\ \E plan \in {create_standardized_calculation_plan(statement_text, statement_type)} :
           runs' = [runs EXCEPT ![i] = [@ EXCEPT !.at = "tools", !.calculation_plan = plan]]
    /\ calculation_log' = clear_calculation_log(calculation_log)

\* one iteration of `for i, tool_exec in enumerate(required_tools, 1)`
ToolStep(i) ==
    /\ ControllerUnchanged
    /\ runs[i].at = "tools"
    /\ runs[i].next <= Len(runs[i].calculation_plan.required_tools)
    /\ \E st \in {ExecuteTool([results |-> runs[i].st.results, log |-> calculation_log,
                                bound |-> runs[i].st.bound, result |-> runs[i].st.result,
                                tool_execution_count |-> runs[i].st.tool_execution_count],
                               runs[i].calculation_plan.required_tools[runs[i].next])} :
           /\ calculation_log' = st.log
           /\ runs' = [runs EXCEPT ![i] =
                          [@ EXCEPT !.next = @ + 1,
                                    !.st = [results |-> st.results, bound |-> st.bound,
                                            result |-> st.result,
                                            tool_execution_count |-> st.tool_execution_count]]]

\* steps 3 and 4 and the return: the tree, validate_tool_usage on the log as
\* it is now, the AgentResult
FinishRun(i) ==
    /\ ControllerUnchanged
    /\ runs[i].at = "tools"
    /\ runs[i].next > Len(runs[i].calculation_plan.required_tools)
    /\ \E done \in {Executed(agents[i], statement_type, runs[i].calculation_plan,
                              [results |-> runs[i].st.results, log |-> calculation_log])} :
           runs' = [runs EXCEPT ![i] = [@ EXCEPT !.at = "returned", !.result = done.result,
                                                 !.log_count = Len(calculation_log)]]
    /\ UNCHANGED calculation_log

Threads == 1..MaxThreads

InitSideBySide ==
    /\ statement_text \in {Text(n, 0) : n \in 0..MaxTokens}
    /\ statement_type \in StatementTypes
    /\ max_retries = 0
    /\ agents = SubSeq(AgentIds, 1, MaxThreads)
    /\ system = "gemini"
    /\ pc = "executing"
    /\ attempt = 0
    /\ retries = <<>>
    /\ calculation_plan = create_standardized_calculation_plan(statement_text, statement_type)
    /\ agent_results = <<>>
    /\ tool_execution_valid = TRUE
    /\ consensus = NoConsensus
    /\ returned = EmptyDict
    /\ calculation_log = <<>>
    /\ plan_calls = <<>>
    /\ runs = [i \in Threads |-> IdleRun]
    /\ engine_call = NoCall
    /\ audit = NoAudit

NextSideBySide == \E i \in Threads : BeginRun(i) \/ ToolStep(i) \/ FinishRun(i)

SideBySideSpec == InitSideBySide /\ [][NextSideBySide]_vars

-----------------------------------------------------------------------------
(* The calculation tools called directly, as the self-test at the end of   *)
(* calculation_tools.py calls them: tool.invoke(parameters) on the         *)
(* module-level calculator, one call after another on the same log.        *)
(* Amounts are in hundredths; the cases stand around the thresholds of the *)
(* balance check (0.01) and of the footing validation (1.0).               *)

\* the self-test's amounts
TestValues ==
    <<1000000 * CentsPerUnit, 500000 * CentsPerUnit, 250000 * CentsPerUnit,
      100000 * CentsPerUnit>>

\* The self-test's liabilities and equity.  In hundredths they exceed the
\* integers of the model checker, so the digits are kept and read as
\* hundredths; Decimal arithmetic is exact at either scale.
TestLiabilities == 5591163

TestEquity == 23202062

\* how far from the exact amount an argument is, in hundredths
BalanceOffsets == {-2, -1, 0, 1, 2}

FootingOffsets == {-150, -100, -99, -1, 0, 1, 99, 100, 150}

SumCalls ==
    {[values |-> SubSeq(TestValues, 1, n), description |-> "Test sum calculation"] : n \in 0..4}
        \cup {[values |-> <<-TestValues[2], TestValues[3], 1>>,
               description |-> "Test sum calculation"]}

SubtractCalls ==
    {[minuend |-> TestValues[1], subtrahend |-> b, description |-> "Test subtraction"] :
        b \in {300000 * CentsPerUnit, TestValues[1], 2 * TestValues[1]}}

BalanceCalls ==
    {[assets |-> l + e + d, liabilities |-> l, equity |-> e] :
        l \in {0, TestLiabilities}, e \in {0, TestEquity}, d \in BalanceOffsets}

PercentageCalls ==
    {[part |-> part, total |-> total] :
        part \in {-25 * CentsPerUnit, 0, 1, 25 * CentsPerUnit},
        total \in {-100 * CentsPerUnit, 0, 100 * CentsPerUnit}}

FootingCalls ==
    {[reported_total |-> SumSeq(SubSeq(TestValues, 1, n)) + d,
      component_values |-> SubSeq(TestValues, 1, n),
      description |-> "Test footing validation"] : n \in {0, 4}, d \in FootingOffsets}

\* the log is short enough to go on
GoesOn == Len(calculation_log) < MaxLog

\* tool.invoke(parameters)
EngineCall(tool_name, parameters) ==
    /\ \E out \in {Invoke(calculation_log, tool_name, parameters)} :
           /\ calculation_log' = out.log
           /\ engine_call' = [tool_name |-> tool_name, parameters |-> parameters,
                              before |-> calculation_log, raised |-> out.raised,
                              result |-> out.result]
    /\ UNCHANGED <<inputs, runs, audit, pc, attempt, retries, calculation_plan, agent_results,
                   tool_execution_valid, consensus, returned, plan_calls>>

CallSum ==
    /\ GoesOn
    /\ \E parameters \in SumCalls : EngineCall("sum_financial_values", parameters)

CallSubtract ==
    /\ GoesOn
    /\ \E parameters \in SubtractCalls : EngineCall("subtract_financial_values", parameters)

CallBalance ==
    /\ GoesOn
    /\ \E parameters \in BalanceCalls : EngineCall("verify_balance_sheet_equation", parameters)

CallPercentage ==
    /\ GoesOn
    /\ \E parameters \in PercentageCalls :
           EngineCall("calculate_financial_percentage", parameters)

CallFooting ==
    /\ GoesOn
    /\ \E parameters \in FootingCalls : EngineCall("validate_footing_calculation", parameters)

\* the result of the sum just made, taken away from itself
CallSubtractSumBack ==
    /\ GoesOn
    /\ engine_call.tool_name = "sum_financial_values"
    /\ \E sum_result \in {Get(engine_call.result, "result").v} :
           EngineCall("subtract_financial_values",
                      [minuend |-> sum_result, subtrahend |-> sum_result,
                       description |-> "Back out " \o engine_call.parameters.description,
                       summed |-> engine_call.parameters.values])

InitEngine ==
    /\ statement_text = Text(0, 0)
    /\ statement_type = "catatan"
    /\ max_retries = 0
    /\ agents = <<>>
    /\ system = "gemini"
    /\ pc = "engine"
    /\ attempt = 0
    /\ retries = <<>>
    /\ calculation_plan = NoPlan
    /\ agent_results = <<>>
    /\ tool_execution_valid = TRUE
    /\ consensus = NoConsensus
    /\ returned = EmptyDict
    /\ calculation_log = <<>>
    /\ plan_calls = <<>>
    /\ runs = <<>>
    /\ engine_call = NoCall
    /\ audit = NoAudit

NextEngine ==
    \/ CallSum \/ CallSubtract \/ CallBalance \/ CallPercentage \/ CallFooting
    \/ CallSubtractSumBack

EngineSpec == InitEngine /\ [][NextEngine]_vars

-----------------------------------------------------------------------------
(* execute_mandatory_calculations on its own, one loop iteration a step.   *)
(* It is handed a plan of the Plan Builder in which any subset of the      *)
(* operations has lost its arguments, so that invoke raises on them.       *)

\* the operation with only its description left
WithoutArguments(tool_exec) ==
    [tool_exec EXCEPT !.parameters =
        [k \in DOMAIN tool_exec.parameters \cap {"description"} |-> tool_exec.parameters[k]]]

\* the plan with the operations at the positions in `failing` made to raise
PlanFailingAt(plan, failing) ==
    [plan EXCEPT !.required_tools =
        [k \in 1..Len(plan.required_tools) |->
            IF k \in failing THEN WithoutArguments(plan.required_tools[k])
            ELSE plan.required_tools[k]]]

HandedPlans(text, type) ==
    Bind(create_standardized_calculation_plan(text, type),
         LAMBDA plan : {PlanFailingAt(plan, failing) :
                           failing \in SUBSET (1..Len(plan.required_tools))})

\* clear_calculation_log.invoke({}); results = {}; tool_execution_count = 0
ExecutorEnter ==
    /\ ControllerUnchanged
    /\ runs[1].at = "handed"
    /\ runs' = [runs EXCEPT ![1] = [@ EXCEPT !.at = "tools"]]
    /\ calculation_log' = clear_calculation_log(calculation_log)

ExecutorStep == ToolStep(1)

\* return results
ExecutorReturn ==
    /\ ControllerUnchanged
    /\ runs[1].at = "tools"
    /\ runs[1].next > Len(runs[1].calculation_plan.required_tools)
    /\ runs' = [runs EXCEPT ![1] = [@ EXCEPT !.at = "returned",
                                            !.result = runs[1].st.results,
                                            !.log_count = Len(calculation_log)]]
    /\ UNCHANGED calculation_log

InitExecutor ==
    /\ statement_text \in {Text(n, 0) : n \in 0..MaxTokens}
    /\ statement_type \in StatementTypes
    /\ max_retries = 0
    /\ agents = SubSeq(AgentIds, 1, 1)
    /\ system = "gemini"
    /\ pc = "executing"
    /\ attempt = 0
    /\ retries = <<>>
    /\ calculation_plan \in HandedPlans(statement_text, statement_type)
    /\ agent_results = <<>>
    /\ tool_execution_valid = TRUE
    /\ consensus = NoConsensus
    /\ returned = EmptyDict
    /\ calculation_log \in LeftoverLogs
    /\ plan_calls = <<>>
    /\ runs = <<[IdleRun EXCEPT !.at = "handed", !.calculation_plan = calculation_plan]>>
    /\ engine_call = NoCall
    /\ audit = NoAudit

NextExecutor == ExecutorEnter \/ ExecutorStep \/ ExecutorReturn

ExecutorSpec == InitExecutor /\ [][NextExecutor]_vars

-----------------------------------------------------------------------------
(* validate_tool_usage on its own: a caller hands it a result tree and an  *)
(* expected count while the module-level log holds some entries.  Each     *)
(* tree comes with the forbidden patterns its dumped text holds, by        *)
(* position in forbidden_patterns.                                         *)

NoteTree(note) ==
    Dict([tool_based_calculation |->
              Dict([total_aset |-> Dict([nilai_perhitungan |-> Num(1000000 * CentsPerUnit),
                                         catatan |-> Str(note)])])])

UsageTrees ==
    {[agent_result |-> EmptyDict, holds |-> {}],
     [agent_result |-> NoteTree("Calculated by tool"), holds |-> {}],
     [agent_result |-> NoteTree("Total calculated manually"), holds |-> {1}],
     [agent_result |-> NoteTree("computed by hand from the ledger"), holds |-> {2}],
     [agent_result |-> NoteTree("Manual calculation of totals"), holds |-> {3}],
     [agent_result |-> NoteTree("I calculated the sum"), holds |-> {4}],
     [agent_result |-> Dict([k \in {"my calculation shows"} |-> Num(1)]), holds |-> {5}],
     [agent_result |-> Dict([catatan |-> Str("my calculation shows"),
                             sumber |-> NoteTree("computed by hand from the ledger")]),
      holds |-> {2, 5}]}

\* the log after n sums
RECURSIVE LogOfLength(_)
LogOfLength(n) ==
    IF n = 0 THEN <<>>
    ELSE sum_values(LogOfLength(n - 1), SubSeq(TestValues, 1, n), "Test sum calculation").log

ValidateUsage ==
    /\ engine_call.tool_name = "validate_tool_usage"
    /\ engine_call.result = EmptyDict
    /\ \E check \in {validate_tool_usage(calculation_log, engine_call.parameters.agent_result,
                                          engine_call.parameters.expected_tool_count)} :
           engine_call' = [engine_call EXCEPT
                              !.before = calculation_log,
                              !.result = Dict([valid |-> Bool(check.valid),
                                               message |-> Str(check.message)])]
    /\ UNCHANGED <<inputs, runs, audit, pc, attempt, retries, calculation_plan, agent_results,
                   tool_execution_valid, consensus, returned, plan_calls, calculation_log>>

InitUsage ==
    /\ statement_text = Text(0, 0)
    /\ statement_type = "catatan"
    /\ max_retries = 0
    /\ agents = <<>>
    /\ system = "gemini"
    /\ pc = "usage"
    /\ attempt = 0
    /\ retries = <<>>
    /\ calculation_plan = NoPlan
    /\ agent_results = <<>>
    /\ tool_execution_valid = TRUE
    /\ consensus = NoConsensus
    /\ returned = EmptyDict
    /\ calculation_log \in {LogOfLength(n) : n \in 0..MaxLog + 1}
    /\ plan_calls = <<>>
    /\ runs = <<>>
    /\ \E tree \in UsageTrees, expected_tool_count \in 0..MaxLog + 1 :
           engine_call = [tool_name |-> "validate_tool_usage",
                          parameters |-> [agent_result |-> tree.agent_result,
                                          holds |-> tree.holds,
                                          expected_tool_count |-> expected_tool_count],
                          before |-> <<>>, raised |-> FALSE, result |-> EmptyDict]
    /\ audit = NoAudit

NextUsage == ValidateUsage

UsageSpec == InitUsage /\ [][NextUsage]_vars

-----------------------------------------------------------------------------
(* The consensus validators on trees with error leaves.  A tool that raised *)
(* leaves {"error": str(e)} at its target path (execute_mandatory_          *)
(* calculations), and create_standardized_json_structure copies what is at  *)
(* <figure>.nilai_perhitungan into nilai_tercatat.                          *)

ErrorLeaf == Dict([error |-> Str("tool failed")])

\* what nilai_tercatat of total_aset may hold, and of aset_lancar; the text
\* "absent" stands for a tree without the aset_lancar entry
TotalLeaves == {Num(1000000 * CentsPerUnit), Num(1002000 * CentsPerUnit), ErrorLeaf}
LancarLeaves == {Num(2000 * CentsPerUnit), Num(2006 * CentsPerUnit), ErrorLeaf, Str("absent")}

LeafTree(total_leaf, lancar_leaf) ==
    LET total == Dict([nama_akun |-> Str("Total Aset"), nilai_tercatat |-> total_leaf])
        lancar == Dict([nama_akun |-> Str("Jumlah Aset Lancar"),
                        nilai_tercatat |-> lancar_leaf])
    IN  Dict([laporan_posisi_keuangan |-> Dict([
            aset |-> IF lancar_leaf = Str("absent")
                     THEN Dict([total_aset |-> total])
                     ELSE Dict([aset_lancar |-> lancar, total_aset |-> total])])])

InitErrorLeaf ==
    /\ statement_text = <<>>
    /\ statement_type = "neraca"
    /\ max_retries = 0
    /\ agents = SubSeq(AgentIds, 1, TripleAgents)
    /\ system \in Systems
    /\ pc = "consensus_check"
    /\ attempt = 0
    /\ retries = <<>>
    /\ calculation_plan = NoPlan
    /\ \E t1 \in TotalLeaves, t2 \in TotalLeaves, t3 \in TotalLeaves :
       \E l1 \in LancarLeaves, l2 \in LancarLeaves, l3 \in LancarLeaves :
           agent_results =
               <<AgentResult(agents[1], statement_type, LeafTree(t1, l1), EmptyDict, 100, 95, 0, <<>>),
                 AgentResult(agents[2], statement_type, LeafTree(t2, l2), EmptyDict, 100, 95, 0, <<>>),
                 AgentResult(agents[3], statement_type, LeafTree(t3, l3), EmptyDict, 100, 95, 0, <<>>)>>
    /\ tool_execution_valid = TRUE
    /\ consensus = NoConsensus
    /\ returned = EmptyDict
    /\ calculation_log = <<>>
    /\ plan_calls = <<[attempt |-> 0, caller |-> 0, plan |-> NoPlan]>>
    /\ runs = <<>>
    /\ engine_call = NoCall
    /\ audit = NoAudit

NextErrorLeaf == ConsensusCheck

ErrorLeafSpec == InitErrorLeaf /\ [][NextErrorLeaf]_vars

-----------------------------------------------------------------------------
(* Properties of the retry controller *)

Finished == pc \in {"done", "failed"}

\* the attempts started so far: each starts with the controller's plan call
AttemptsStarted == Cardinality({i \in 1..Len(plan_calls) : plan_calls[i].caller = 0})

UsageReason == "tool_execution_inconsistent"
DisagreeReason == "tool_results_disagree_unexpectedly"

\* C1: for max_retries >= 0 and whatever the agents report, the controller
\* starts at most max_retries + 1 attempts, ends in done only with a consensus
\* and in failed only with the attempts used up, and it does end.
C1_BoundedAttempts ==
    /\ [](max_retries >= 0 =>
             /\ AttemptsStarted <= max_retries + 1
             /\ attempt <= max_retries
             /\ (pc = "done" => consensus.is_consensus)
             /\ (pc = "failed" => AttemptsStarted = max_retries + 1))
    /\ <>Finished

\* the last attempt was started and the controller gave up after it
C1_Witness ==
    /\ pc = "failed"
    /\ max_retries = MaxRetries
    /\ AttemptsStarted = MaxRetries + 1

\* C2: the usage check comes after every agent has run and before the
\* consensus check; an attempt that fails it is recorded with the usage reason
\* and the consensus validator is not invoked for it.
C2_UsageBeforeConsensus ==
    /\ [](pc \in {"usage_check", "consensus_check"} => Len(agent_results) = Len(agents))
    /\ [](pc = "consensus_check" => tool_execution_valid)
    /\ [][(pc = "usage_check" /\ ~tool_execution_valid) =>
             /\ pc' \in {"planning", "failed"}
             /\ consensus' = consensus
             /\ Len(retries') = Len(retries) + 1
             /\ retries'[Len(retries')].reason = UsageReason
             /\ retries'[Len(retries')].attempt = attempt + 1]_vars
    /\ [][(pc = "usage_check" /\ tool_execution_valid) =>
             (pc' = "consensus_check" /\ retries' = retries)]_vars

\* a failed usage check has been recorded and the next attempt is awaited
C2_Witness ==
    /\ pc = "planning"
    /\ Len(retries) = 1
    /\ retries[1].reason = UsageReason
    /\ consensus = NoConsensus

\* C3: whenever the audit log of a replica's run holds a number of entries
\* other than the number of operations of the attempt's plan, the attempt
\* fails its usage check and the consensus check is not reached for it.
\* (calculation_log is the log of the run of the last replica.)
C3_CountMismatchFailsAttempt ==
    (/\ pc \in {"usage_check", "consensus_check", "done"}
     /\ Len(calculation_log) # calculation_plan.total_tool_count)
        => (pc = "usage_check" /\ ~tool_execution_valid)

\* C4: the retry log holds one record per failed attempt, in attempt order,
\* the i-th with attempt index i and one of the two reasons; done on attempt
\* k returns the validator's agreed tree with k - 1 records, failed returns
\* max_retries + 1 records.
C4_RetryLog ==
    /\ \A i \in 1..Len(retries) :
           /\ retries[i].attempt = i
           /\ retries[i].reason \in {UsageReason, DisagreeReason}
    /\ ~Finished => Len(retries) = attempt
    /\ pc = "done" =>
           /\ Len(retries) = attempt
           /\ consensus.is_consensus
           /\ returned = agent_results[BestAgent(agent_results)].extracted_data
    /\ pc = "failed" => Len(retries) = max_retries + 1

\* consensus on the third attempt, after one failure of each kind
C4_Witness ==
    /\ pc = "done"
    /\ Len(retries) = 2
    /\ retries[1].reason = UsageReason
    /\ retries[2].reason = DisagreeReason

\* C5: when the attempts are used up the controller returns the tree of the
\* first agent of the last attempt, whichever check failed it.
C5_FallbackFirstAgent ==
    (pc = "failed" /\ max_retries >= 0) => returned = agent_results[1].extracted_data

\* the plan builder's calls made for the current attempt
PlanCallsOf(a) == {i \in 1..Len(plan_calls) : plan_calls[i].attempt = a}

\* C6: exactly one plan is built for an attempt, the one all its replicas
\* execute; each retry builds its plan anew.
C6_OnePlanPerAttempt ==
    (max_retries >= 0 /\ pc # "planning") =>
        /\ Cardinality(PlanCallsOf(attempt)) = 1
        /\ \A a \in 0..(attempt - 1) : Cardinality(PlanCallsOf(a)) = 1

C8_IdenticalReplicasAgree ==
    max_retries >= 0 =>
        /\ attempt = 0
        /\ retries = <<>>
        /\ pc # "failed"
        /\ \A i, j \in 1..Len(agent_results) :
               agent_results[i].extracted_data = agent_results[j].extracted_data
        /\ pc = "done" =>
               /\ Len(agent_results) = Len(agents)
               /\ consensus.is_consensus
               /\ consensus.discrepancies = {}
               /\ consensus.failing_agents = {}
               /\ returned = agent_results[1].extracted_data

\* three agents are done on a balance sheet whose plan has five operations,
\* one of which left no log entry
C8_Witness ==
    /\ pc = "done"
    /\ Len(agents) = TripleAgents
    /\ IsBalanceSheet(statement_type)
    /\ calculation_plan.total_tool_count = 5
    /\ Len(calculation_log) = 4
    /\ consensus.is_consensus

-----------------------------------------------------------------------------
(* Properties of the consensus validators, read off the trees themselves *)

FigureNames == {"aset_lancar", "total_aset"}

AsetOf(i) == Get(Get(agent_results[i].extracted_data, "laporan_posisi_keuangan"), "aset")
HoldsFigure(i, name) == Has(AsetOf(i), name)
FigureOf(i, name) == Get(Get(AsetOf(i), name), "nilai_tercatat").v
HoldersOf(name) == {i \in 1..Len(agent_results) : HoldsFigure(i, name)}
FirstHolder(name) == CHOOSE i \in HoldersOf(name) : \A j \in HoldersOf(name) : i <= j

\* |value - baseline| > max(|baseline| * factor, floor): more than both
Exceeds(i, name) ==
    LET baseline == FigureOf(FirstHolder(name), name)
        difference == Abs(FigureOf(i, name) - baseline)
    IN  IF system = "gemini"
        THEN difference * 10000 > Abs(baseline) /\ difference > 1 * CentsPerUnit
        ELSE difference * 1000 > Abs(baseline) /\ difference > 5 * CentsPerUnit

ExpectedDisagreeing(name) ==
    IF Cardinality(HoldersOf(name)) < 2 THEN {}
    ELSE {agents[i] : i \in {h \in HoldersOf(name) : h # FirstHolder(name) /\ Exceeds(h, name)}}

\* C9: per figure held by at least two agents the baseline is the first
\* holder's value, tolerance = max(|baseline| * factor, floor) with
\* (0.0001, 1.0) strict and (0.001, 5.0) loose, and a later holder is in the
\* figure's disagreeing set and in the failing set exactly when its difference
\* from the baseline is more than the tolerance; a figure with fewer than two
\* holders is not compared.
C9_ToleranceSemantics ==
    Finished =>
        /\ consensus.failing_agents = UNION {ExpectedDisagreeing(name) : name \in FigureNames}
        /\ \A name \in FigureNames :
               (ExpectedDisagreeing(name) # {})
                   <=> (\E d \in consensus.discrepancies : d.key = name)
        /\ \A d \in consensus.discrepancies :
               /\ Range(d.disagreeing_agents) = ExpectedDisagreeing(d.key)
               /\ d.base_value = FigureOf(FirstHolder(d.key), d.key)
        /\ consensus.is_consensus <=> (consensus.failing_agents = {})

\* strict profile: the second agent differs from the baseline by exactly the
\* tolerance and agrees, the third by one unit more and fails
C9_Witness ==
    /\ pc = "failed"
    /\ system = "gemini"
    /\ HoldersOf("total_aset") = {1, 2, 3}
    /\ FigureOf(1, "total_aset") = 1000000 * CentsPerUnit
    /\ FigureOf(2, "total_aset") = 1000100 * CentsPerUnit
    /\ FigureOf(3, "total_aset") = 1000101 * CentsPerUnit
    /\ consensus.failing_agents = {"agent_3"}

\* the three agents report these totals, under the strict profile
TotalsAre(t1, t2, t3) ==
    /\ system = "gemini"
    /\ agent_results[1].extracted_data = ChoiceTree(<<t1, -1>>)
    /\ agent_results[2].extracted_data = ChoiceTree(<<t2, -1>>)
    /\ agent_results[3].extracted_data = ChoiceTree(<<t3, -1>>)

FailsNamingThirdOnly ==
    /\ pc = "failed"
    /\ ~consensus.is_consensus
    /\ consensus.failing_agents = {"agent_3"}
    /\ \E d \in consensus.discrepancies :
           /\ consensus.discrepancies = {d}
           /\ d.key = "total_aset"
           /\ d.disagreeing_agents = <<"agent_3">>

\* C10 as stated: totals 1000000, 1000000, 1000050 under the strict profile:
\* consensus fails and the one discrepancy names the third agent only.
C10_FiftyApartFails ==
    (Finished /\ TotalsAre(1000000, 1000000, 1000050)) => FailsNamingThirdOnly

\* C10 amended: the strict tolerance at 1000000 is max(100, 1) = 100, so with
\* totals 1000000, 1000000, 1000050 consensus is reached and nothing is
\* recorded; with a third total of 1000101 consensus fails and the one
\* discrepancy names the third agent only.
C10_FiftyApartAgrees ==
    /\ (Finished /\ TotalsAre(1000000, 1000000, 1000050)) =>
           /\ pc = "done"
           /\ consensus.is_consensus
           /\ consensus.discrepancies = {}
           /\ consensus.failing_agents = {}
    /\ (Finished /\ TotalsAre(1000000, 1000000, 1000101)) => FailsNamingThirdOnly

\* the validator has agreed on 1000000, 1000000, 1000050
C10_Witness ==
    /\ pc = "done"
    /\ TotalsAre(1000000, 1000000, 1000050)
    /\ consensus.is_consensus

\* C11: the outcome is agreed exactly when there is no discrepancy and no
\* failing agent; agreed, the tree handed back is that of the agent with the
\* highest confidence, the first of them in the given order; not agreed, the
\* agreed tree is empty and retry_needed is true.
C11_AgreedOutcome ==
    Finished =>
        /\ consensus.is_consensus
               <=> (consensus.discrepancies = {} /\ consensus.failing_agents = {})
        /\ consensus.retry_needed <=> ~consensus.is_consensus
        /\ consensus.is_consensus =>
               \E i \in 1..Len(agent_results) :
                   /\ \A j \in 1..Len(agent_results) :
                          agent_results[j].confidence <= agent_results[i].confidence
                   /\ \A j \in 1..(i - 1) :
                          agent_results[j].confidence < agent_results[i].confidence
                   /\ consensus.agreed_data = agent_results[i].extracted_data
                   /\ returned = agent_results[i].extracted_data
        /\ ~consensus.is_consensus => consensus.agreed_data = EmptyDict

\* three trees that differ within the tolerance; the second and the third
\* agent tie for the highest confidence and the second agent's tree is chosen
C11_Witness ==
    /\ pc = "done"
    /\ TotalsAre(1000000, 1000050, 1000100)
    /\ agent_results[1].confidence = 10
    /\ agent_results[2].confidence = 95
    /\ agent_results[3].confidence = 95
    /\ returned = agent_results[2].extracted_data

\* nilai_tercatat of a figure in the i-th agent's tree
LeafOf(i, name) == Get(Get(AsetOf(i), name), "nilai_tercatat")

\* C12: an error leaf never agrees with a value: when one agent's tree has an
\* error leaf at a key figure and another agent's has a number there, the
\* outcome is not agreed.
C12_ErrorLeafNeverAgrees ==
    (/\ Finished
     /\ \E name \in FigureNames : \E i, j \in 1..Len(agent_results) :
            /\ HoldsFigure(i, name) /\ LeafOf(i, name) = ErrorLeaf
            /\ HoldsFigure(j, name) /\ IsNum(LeafOf(j, name)))
        => ~consensus.is_consensus

\* C13: the log is emptied at the start of every agent run: once an agent
\* has run, the log holds the entries of that run only, and the agent's
\* result (with the verdict validate_tool_usage read off the log) is the one
\* a run on an empty log gives, whatever an earlier agent, attempt or
\* statement left in the log.
C13_LogEmptiedPerRun ==
    (pc \in {"executing", "usage_check"} /\ agent_results # <<>>) =>
        LET n == Len(agent_results)
            own == process_statement(<<>>, agents[n], statement_text, statement_type)
        IN  /\ calculation_log = own.log
            /\ agent_results[n] = own.result
            /\ Len(calculation_log) <= 3 * calculation_plan.total_tool_count

\* the second agent has run after the first left four entries in the log
C13_Witness ==
    /\ pc \in {"executing", "usage_check"}
    /\ Len(agent_results) = 2
    /\ calculation_plan.total_tool_count = 5
    /\ Len(calculation_log) = 4

\* C14: when the agent runs of an attempt are interleaved, each agent's log
\* entry count, validity flag and result tree are those of the runs made one
\* after another.
C14_InterleavingInvisible ==
    \A i \in 1..Len(runs) :
        runs[i].at = "returned" =>
            LET alone == process_statement(<<>>, agents[i], statement_text, statement_type)
            IN  /\ runs[i].log_count = Len(alone.log)
                /\ runs[i].result.validation_score = alone.result.validation_score
                /\ runs[i].result.errors = alone.result.errors
                /\ runs[i].result.extracted_data = alone.result.extracted_data

\* the plan the agent that ran last built for itself, and the locals of its
\* execute_mandatory_calculations at the end of the loop
OwnPlan == create_standardized_calculation_plan(statement_text, statement_type)

OwnRun == ExecutorRun(<<>>, OwnPlan)

AgentHasRun == pc \in {"executing", "usage_check"} /\ agent_results # <<>>

\* every operation of the plan went through the try block to its end
EverySucceeded == OwnRun.tool_execution_count = Len(OwnPlan.required_tools)

\* C15: after execute_mandatory_calculations has run a plan in which every
\* operation succeeded, the audit log holds as many entries as the plan has
\* operations, whatever the statement type and text.
C15_LogCountEqualsPlanCount ==
    (AgentHasRun /\ EverySucceeded) =>
        Len(calculation_log) = OwnPlan.total_tool_count

\* a run of three operations, all succeeded
C15_Witness ==
    /\ AgentHasRun /\ EverySucceeded
    /\ OwnPlan.total_tool_count = 3
    /\ Len(calculation_log) = 3

\* a calculation tool has been called directly and did not raise
Called == engine_call.tool_name # "none" /\ ~engine_call.raised

\* C16: every call of an engine operation appends exactly one entry to the
\* audit log, whether it succeeds or hands back an error result, and leaves
\* the earlier entries as they were.
C16_OneEntryPerCall ==
    Called =>
        /\ Len(calculation_log) = Len(engine_call.before) + 1
        /\ SubSeq(calculation_log, 1, Len(engine_call.before)) = engine_call.before

\* what the tree holds at a path: the value there, or nothing
Nothing == Str("nothing at this path")

RECURSIVE LeafAt(_, _)
LeafAt(tree, keys) ==
    IF keys = <<>> THEN tree
    ELSE IF IsDict(tree) /\ Has(tree, keys[1]) THEN LeafAt(Get(tree, keys[1]), Tail(keys))
    ELSE Nothing

\* the leaf an operation leaves when it is called on its own
LeafFor(tool_exec) ==
    LET call == Invoke(<<>>, tool_exec.tool_name, tool_exec.parameters)
    IN  IF call.raised THEN Dict([error |-> Str(call.error)]) ELSE call.result

\* the log entries the operations before position n leave, in plan order
RECURSIVE EntriesBefore(_, _)
EntriesBefore(required_tools, n) ==
    IF n <= 1 THEN <<>>
    ELSE EntriesBefore(required_tools, n - 1)
            \o Invoke(<<>>, required_tools[n - 1].tool_name,
                      required_tools[n - 1].parameters).log

Raising(required_tools) ==
    {k \in 1..Len(required_tools) :
        Invoke(<<>>, required_tools[k].tool_name, required_tools[k].parameters).raised}

\* C17: execute_mandatory_calculations takes the operations in plan order and
\* never aborts: an operation that raises leaves an error leaf at its target
\* path and the operations after it still run, so at the return the tree
\* holds the result or the error leaf of every operation at its target path,
\* whatever subset of the operations raised.
C17_LeafAtEveryPath ==
    \A i \in 1..Len(runs) :
        LET required_tools == runs[i].calculation_plan.required_tools
            done == runs[i].next - 1
        IN  (runs[i].at \in {"tools", "returned"} /\ pc = "executing" /\ Len(runs) = 1) =>
                /\ \A k \in 1..done :
                       LeafAt(runs[i].st.results, required_tools[k].expected_result_key)
                           = LeafFor(required_tools[k])
                /\ calculation_log = EntriesBefore(required_tools, runs[i].next)
                /\ runs[i].st.tool_execution_count
                       = done - Cardinality(Raising(required_tools) \cap (1..done))
                /\ runs[i].at = "returned" =>
                       /\ done = Len(required_tools)
                       /\ runs[i].result = runs[i].st.results

\* a run has returned in which the first and the last of at least three
\* operations raised and the others did not
C17_Witness ==
    /\ Len(runs) = 1 /\ runs[1].at = "returned"
    /\ Len(runs[1].calculation_plan.required_tools) >= 3
    /\ {1, Len(runs[1].calculation_plan.required_tools)}
           \subseteq Raising(runs[1].calculation_plan.required_tools)
    /\ 2 \notin Raising(runs[1].calculation_plan.required_tools)
    /\ Has(LeafAt(runs[1].result, runs[1].calculation_plan.required_tools[1].expected_result_key),
           "error")

\* validate_tool_usage has returned
UsageValidated == engine_call.tool_name = "validate_tool_usage" /\ engine_call.result # EmptyDict

\* C18: validate_tool_usage says valid exactly when the log holds the expected
\* number of entries and the tree holds no forbidden pattern; a count mismatch
\* is reported with both counts, also when a pattern is present as well, and
\* otherwise a pattern is reported by the pattern found.
C18_ValidIffCountAndNoPattern ==
    UsageValidated =>
        LET expected == engine_call.parameters.expected_tool_count
            actual == Len(calculation_log)
            holds == engine_call.parameters.holds
            valid == Get(engine_call.result, "valid").v
            message == Get(engine_call.result, "message").v
        IN  /\ valid <=> (actual = expected /\ holds = {})
            /\ actual # expected =>
                   message = "Expected " \o ToString(expected) \o " tools, got "
                             \o ToString(actual)
            /\ (actual = expected /\ holds # {}) =>
                   \E i \in holds :
                       message = "Forbidden manual calculation detected: "
                                 \o forbidden_patterns[i]

\* both checks fail, and the count mismatch is the one reported
C18_Witness ==
    /\ UsageValidated
    /\ engine_call.parameters.holds = {2, 5}
    /\ engine_call.parameters.expected_tool_count = 3
    /\ Len(calculation_log) = 2
    /\ Get(engine_call.result, "message").v = "Expected 3 tools, got 2"

\* the last direct call was of this tool
CalledTool(tool_name) == Called /\ engine_call.tool_name = tool_name

\* assets - (liabilities + equity) of the last balance check, in hundredths
BalanceGap ==
    engine_call.parameters.assets
        - (engine_call.parameters.liabilities + engine_call.parameters.equity)

\* C19: verify_balance_equation says is_balanced exactly when assets and
\* liabilities + equity are less than 0.01 apart: equal amounts give
\* is_balanced = true with difference 0, and assets 0.01 or 0.02 off give
\* is_balanced = false.
C19_BalancedBelowOneCent ==
    CalledTool("verify_balance_sheet_equation") =>
        LET is_balanced == Get(engine_call.result, "is_balanced").v
        IN  /\ is_balanced <=> BalanceGap = 0
            /\ BalanceGap \in {-2, -1, 1, 2} => ~is_balanced
            /\ Get(engine_call.result, "difference").v = BalanceGap
            /\ Get(engine_call.result, "status").v
                   = (IF BalanceGap = 0 THEN "Balanced" ELSE "Unbalanced")

\* the self-test's figures with assets exactly 0.01 above: not balanced
C19_Witness ==
    /\ CalledTool("verify_balance_sheet_equation")
    /\ engine_call.parameters.liabilities = TestLiabilities
    /\ engine_call.parameters.equity = TestEquity
    /\ BalanceGap = 1
    /\ ~Get(engine_call.result, "is_balanced").v

\* sum(component_values) - reported_total of the last footing validation
FootingGap ==
    SumSeq(engine_call.parameters.component_values) - engine_call.parameters.reported_total

\* C20: validate_footing_calculation says is_accurate exactly when the sum of
\* the components and the reported total are less than 1.0 apart: equal
\* amounts give is_accurate = true and status OK, and a reported total 1.0 or
\* 1.5 off gives is_accurate = false and status ERROR.
C20_AccurateBelowOneUnit ==
    CalledTool("validate_footing_calculation") =>
        LET is_accurate == Get(engine_call.result, "is_accurate").v
            status == Get(engine_call.result, "status").v
        IN  /\ is_accurate <=> FootingGap \in {-99, -1, 0, 1, 99}
            /\ FootingGap \in {-150, -100, 100, 150} => (~is_accurate /\ status = "ERROR")
            /\ FootingGap = 0 => (is_accurate /\ status = "OK")
            /\ status = (IF is_accurate THEN "OK" ELSE "ERROR")
            /\ Get(engine_call.result, "difference").v = FootingGap

\* the self-test's components with a reported total exactly 1.0 above
C20_Witness ==
    /\ CalledTool("validate_footing_calculation")
    /\ engine_call.parameters.component_values = TestValues
    /\ FootingGap = -CentsPerUnit
    /\ Get(engine_call.result, "status").v = "ERROR"

\* C21: calculate_percentage with a total of zero raises nothing and hands
\* back a result tagged "error", with an error message and a percentage of 0,
\* whatever the part; with any other total the result is tagged "high".
C21_ZeroTotalTaggedError ==
    engine_call.tool_name = "calculate_financial_percentage" =>
        /\ ~engine_call.raised
        /\ Get(engine_call.result, "operation") = Str("percentage")
        /\ engine_call.parameters.total = 0 =>
               /\ Get(engine_call.result, "precision") = Str("error")
               /\ Has(engine_call.result, "error")
               /\ Get(engine_call.result, "percentage") = Num(0)
        /\ engine_call.parameters.total # 0 =>
               /\ Get(engine_call.result, "precision") = Str("high")
               /\ ~Has(engine_call.result, "error")

\* a part that is not zero over a total of zero
C21_Witness ==
    /\ CalledTool("calculate_financial_percentage")
    /\ engine_call.parameters.total = 0
    /\ engine_call.parameters.part = -25 * CentsPerUnit
    /\ Get(engine_call.result, "precision") = Str("error")

\* the last direct call took the sum of some values away from itself
SumBackedOut ==
    CalledTool("subtract_financial_values") /\ "summed" \in DOMAIN engine_call.parameters

UnusableTokens == {TokenList[6], TokenList[7], TokenList[8]}

KnownTypes == {"neraca", "laporan_posisi_keuangan", "laba_rugi", "arus_kas"}

\* the text holds no usable number, or the type is none of the known ones
NothingToCompute ==
    \/ \A i \in 1..Len(statement_text) : statement_text[i] \in UnusableTokens
    \/ statement_type \notin KnownTypes

\* C23: when the text holds no usable number or the type is not a known one,
\* the plan is empty, every agent runs no operation and passes its usage
\* check with a log of 0 entries, and the controller goes on without a retry
\* (its next step is always there to take) to end on its first attempt with
\* the tree the agents agree on.
C23_EmptyPlanCompletes ==
    (NothingToCompute /\ max_retries >= 0) =>
        /\ OwnPlan = FinancialCalculationPlan(<<>>)
        /\ pc # "planning" => calculation_plan = FinancialCalculationPlan(<<>>)
        /\ AgentHasRun => calculation_log = <<>>
        /\ \A i \in 1..Len(agent_results) :
               /\ agent_results[i].tool_calls_made = 0
               /\ agent_results[i].validation_score = 100
               /\ agent_results[i].errors = <<>>
               /\ agent_results[i].extracted_data
                      = create_standardized_json_structure(EmptyDict, statement_type)
        /\ pc # "failed" /\ retries = <<>> /\ attempt = 0
        /\ pc = "planning" => attempt <= max_retries
        /\ pc = "executing" => Len(agent_results) < Len(agents)
        /\ pc = "usage_check" => tool_execution_valid
        /\ pc = "done" =>
               /\ consensus.is_consensus
               /\ returned = create_standardized_json_structure(EmptyDict, statement_type)

\* three unusable runs in a balance sheet, three agents, the controller done
C23_Witness ==
    /\ pc = "done"
    /\ statement_text = Text(3, 5)
    /\ statement_type = "neraca"
    /\ Len(agent_results) = 3
    /\ calculation_plan.total_tool_count = 0
    /\ returned # EmptyDict

\* process_financial_statements has returned
Audited == pc = "audited"

\* the metadata of what it returned
Metadata == Get(audit.final, MetadataKey(system))

\* some statement used up its attempts without an agreement
Exhausted ==
    \E i \in 1..Len(audit.outcomes) : audit.outcomes[i].ended = "failed"

\* the retry records of all statements, in order
RECURSIVE AttemptHistory(_)
AttemptHistory(n) ==
    IF n = 0 THEN <<>> ELSE AttemptHistory(n - 1) \o audit.outcomes[n].retries

\* the tags a result carries when every statement reached consensus, at once
\* or after retries
ConsensusTags == {ConsensusQuality(n) : n \in 0..1}

\* C24: when the attempts were used up without agreement, what is returned is
\* tagged as unverified, apart from the tags of a result on which consensus
\* was reached, and carries the full attempt history.
C24_ExhaustedTaggedUnverified ==
    (Audited /\ Exhausted /\ max_retries >= 0) =>
        /\ Get(Metadata, "consensus_quality").v \notin ConsensusTags
        /\ Get(Metadata, "retry_log") = List(AttemptHistory(Len(audit.outcomes)))

\* the result dict the executor stored for a sum, if the sum succeeded
SumResultAt(name) ==
    LET leaf == LeafAt(OwnRun.results, <<name, "nilai_perhitungan">>)
    IN  IF IsDict(leaf) /\ Has(leaf, "result") THEN leaf ELSE Nothing

BothSumsSucceeded ==
    /\ IsBalanceSheet(statement_type)
    /\ SumResultAt("aset_lancar") # Nothing
    /\ SumResultAt("total_aset") # Nothing

\* C25: for a balance-sheet agent whose current-assets and total-assets sums
\* succeeded, the key figures taken from its tree hold aset_lancar and
\* total_aset, each the numeric result of its sum.
C25_KeyFiguresHoldSums ==
    (AgentHasRun /\ BothSumsSucceeded) =>
        LET figures == extract_key_figures(agent_results[Len(agent_results)].extracted_data)
        IN  /\ {"aset_lancar", "total_aset"} \subseteq DOMAIN figures
            /\ figures["aset_lancar"] = Get(SumResultAt("aset_lancar"), "result").v
            /\ figures["total_aset"] = Get(SumResultAt("total_aset"), "result").v

\* the aggregate of what was returned
Aggregate == Get(audit.final, "audit_footing_laporan_keuangan")

\* C30: process_financial_statements takes the statements one after another
\* and what it returns still holds the final result tree of every statement
\* processed: a later statement's result never replaces an earlier one's.
C30_EveryStatementKept ==
    Audited =>
        /\ Len(audit.outcomes) = Len(audit.statements)
        /\ \A i \in 1..Len(audit.outcomes) :
               /\ audit.outcomes[i].statement_type = audit.statements[i].statement_type
               /\ \A k \in DOMAIN audit.outcomes[i].final_result.v :
                      /\ Has(Aggregate, k)
                      /\ Get(Aggregate, k) = audit.outcomes[i].final_result.v[k]

\* the fixed recipe of a balance sheet: each operation by its tool and its
\* target path
Recipe ==
    << <<"sum_financial_values", <<"aset_lancar", "nilai_perhitungan">> >>,
       <<"sum_financial_values", <<"aset_tetap", "nilai_perhitungan">> >>,
       <<"sum_financial_values", <<"total_aset", "nilai_perhitungan">> >>,
       <<"validate_footing_calculation", <<"footing_validation", "status">> >>,
       <<"verify_balance_sheet_equation", <<"balancing", "status">> >> >>

\* the threshold of each operation of the recipe, on the extracted buckets
ThresholdMet(numbers, k) ==
    CASE k = 1 -> numbers.current_assets # <<>>
      [] k = 2 -> numbers.fixed_assets # <<>>
      [] k = 3 -> Len(numbers.all_values) >= 2
      [] k = 4 -> Len(numbers.all_values) >= 3
      [] k = 5 -> Len(numbers.all_values) >= 6

\* the operations of the recipe whose threshold is met, in recipe order
RECURSIVE RecipeUpTo(_, _)
RecipeUpTo(numbers, k) ==
    IF k = 0 THEN <<>>
    ELSE RecipeUpTo(numbers, k - 1)
            \o (IF ThresholdMet(numbers, k) THEN <<Recipe[k]>> ELSE <<>>)

\* the plan just built, each operation by its tool and its target path
PlanShape(plan) ==
    [k \in 1..Len(plan.required_tools) |->
        <<plan.required_tools[k].tool_name, plan.required_tools[k].expected_result_key>>]

\* the controller is past the plan step of the current attempt
PlanBuilt == pc \in {"executing", "usage_check", "consensus_check"}

\* C26: a balance-sheet plan holds, in the order of the recipe, exactly the
\* operations of the recipe whose threshold is met; it has at most 5
\* operations and is no shorter than the plan of any text with fewer values
\* (every prefix of the text).
C26_PlanFollowsRecipe ==
    (PlanBuilt /\ IsBalanceSheet(statement_type)) =>
        /\ PlanShape(calculation_plan)
               = RecipeUpTo(extract_financial_values(statement_text), Len(Recipe))
        /\ calculation_plan.total_tool_count <= Len(Recipe)
        /\ calculation_plan.total_tool_count = Len(calculation_plan.required_tools)
        /\ \A m \in 0..Len(statement_text) :
               create_standardized_calculation_plan(SubSeq(statement_text, 1, m),
                                                    statement_type).total_tool_count
                   <= calculation_plan.total_tool_count

\* seven values: all five operations; and six values: no fixed-assets sum
C26_Witness ==
    /\ PlanBuilt /\ statement_type = "neraca"
    /\ Len(extract_financial_values(statement_text).all_values) = 6
    /\ calculation_plan.total_tool_count = 4
    /\ calculation_plan.required_tools[4].tool_name = "verify_balance_sheet_equation"

\* the runs of the text that parse and exceed the floor, as values, in the
\* order of the text
KeptValues(financial_data) ==
    LET kept == SelectSeq(financial_data, LAMBDA run :
                    /\ FloatParses(RemoveCommas(run))
                    /\ FloatValue(RemoveCommas(run)) > MaterialityFloor * CentsPerUnit)
    IN  [k \in 1..Len(kept) |-> FloatValue(RemoveCommas(kept[k]))]

\* C27: the extractor's values all exceed the floor and stand in the order of
\* the text, and the first-third, middle-third and last-third buckets,
\* concatenated in that order, equal the all-values bucket.
C27_ThirdsCoverAllValues ==
    PlanBuilt =>
        LET numbers == extract_financial_values(statement_text)
        IN  /\ numbers.all_values = KeptValues(statement_text)
            /\ \A k \in 1..Len(numbers.all_values) :
                   numbers.all_values[k] > MaterialityFloor * CentsPerUnit
            /\ numbers.current_assets \o numbers.fixed_assets \o numbers.liabilities
                   = numbers.all_values

\* the parameter names the signature of a tool accepts: the required ones
\* and, where the signature has it, description
AcceptedArgs(tool_name) ==
    RequiredArgs(tool_name)
        \cup (IF tool_name \in {"sum_financial_values", "subtract_financial_values",
                                "validate_footing_calculation"}
              THEN {"description"} ELSE {})

\* C28: every operation of a built plan names a tool the executor dispatches
\* on and binds exactly parameter names the tool accepts, all the required
\* ones among them, so that invoking it does not raise.
C28_OperationsFitSignatures ==
    PlanBuilt =>
        \A k \in 1..Len(calculation_plan.required_tools) :
            LET tool_exec == calculation_plan.required_tools[k]
            IN  /\ tool_exec.tool_name \in KnownTools
                /\ RequiredArgs(tool_exec.tool_name) \subseteq DOMAIN tool_exec.parameters
                /\ DOMAIN tool_exec.parameters \subseteq AcceptedArgs(tool_exec.tool_name)
                /\ ~Invoke(<<>>, tool_exec.tool_name, tool_exec.parameters).raised

\* p is a proper prefix of q
ProperPrefix(p, q) == Len(p) < Len(q) /\ SubSeq(q, 1, Len(p)) = p

\* the values stored in a tree of two levels, counted by their paths
StoredLeaves(tree) ==
    Cardinality({path \in (DOMAIN tree.v)
                              \X UNION {DOMAIN tree.v[a].v : a \in DOMAIN tree.v} :
                    path[2] \in DOMAIN tree.v[path[1]].v})

\* C29: the target paths of a built plan are pairwise distinct and none is a
\* proper prefix of another; each operation executed adds one leaf to the
\* result tree, so the tree returned has as many leaves as the plan has
\* operations.
C29_OneLeafPerOperation ==
    \A i \in 1..Len(runs) :
        LET required_tools == runs[i].calculation_plan.required_tools
            Path(k) == required_tools[k].expected_result_key
        IN  (runs[i].at \in {"tools", "returned"} /\ pc = "executing" /\ Len(runs) = 1) =>
                /\ \A k, m \in 1..Len(required_tools) :
                       k # m => (Path(k) # Path(m) /\ ~ProperPrefix(Path(k), Path(m)))
                /\ StoredLeaves(runs[i].st.results) = runs[i].next - 1
                /\ runs[i].at = "returned" =>
                       StoredLeaves(runs[i].result) = Len(required_tools)

\* an income plan of three operations has been executed to the end
C29_Witness ==
    /\ Len(runs) = 1 /\ runs[1].at = "returned"
    /\ statement_type = "laba_rugi"
    /\ Len(runs[1].calculation_plan.required_tools) = 3
    /\ StoredLeaves(runs[1].result) = 3

====
